---- MODULE Spec2Model ----
(***************************************************************************)
(* IPTV-StreamWatcher: the stream probe (check_ts), the sequential session *)
(* of run_local_test.py (run_checks_async), the bounded sweep              *)
(* (run_checks_concurrent) and the periodic Monitor of worker.py.          *)
(*                                                                         *)
(* Every coroutine runs on one asyncio event loop: the code between two    *)
(* awaits that really suspend is one atomic action.  The snapshot file is  *)
(* also read by the HTTP server thread, so a snapshot write is split into  *)
(* the steps that thread can observe.                                      *)
(***************************************************************************)
EXTENDS Integers, Sequences, FiniteSets, TLC

(***************************************************************************)
(* Bounds of the model.                                                    *)
(***************************************************************************)
NumChannels == 2      \* channels of a sequential session
MaxDuration == 2      \* largest duration_seconds of a periodic session
MaxOutLen == 2        \* fields in one inspection report
MaxLines == 2         \* output lines the continuous processes of a session print
MaxFaulty == 1        \* channels of a session whose stream or probe misbehaves
SweepChannels == 2    \* channels of a bounded sweep and of the Monitor
MaxConcurrency == 1   \* largest concurrency limit
MaxSweeps == 1        \* sweeps the Monitor's loops begin
MaxStarts == 2        \* calls of start()
MaxIterations == 2    \* iterations of the tests_runner loop
MaxOnceCalls == 2     \* calls of Monitor.run_once

(***************************************************************************)
(* Program constants.                                                      *)
(***************************************************************************)
ProgressEvery == 5    \* update_progress: asyncio.sleep(5)
CheckInterval == 1    \* run_checks_async(check_interval=1)
ShortProbeCap == 10   \* per_check_timeout=min(10, ...)
ReaderGrace == 2      \* asyncio.wait_for(reader_out, timeout=2)

Min(S) == CHOOSE x \in S : \A y \in S : x <= y
Max(S) == CHOOSE x \in S : \A y \in S : x >= y
MinOf(a, b) == IF a <= b THEN a ELSE b
MaxOf(a, b) == IF a >= b THEN a ELSE b

(***************************************************************************)
(* check_ts._check: one blocking ffprobe call and the classification of    *)
(* its report.  A report is a sequence of fields [f, v]; notes are the     *)
(* sequence of fragments the code concatenates.                            *)
(***************************************************************************)
NoTime == -1          \* Python None as a probe time
NoneStr == "None"     \* Python None as a resolution

ResNames == << <<"1x1", "1x2">>, <<"2x1", "2x2">> >>
ResStr(w, h) == ResNames[w][h]

OutTokens ==
  { [f |-> "codec_type=video", v |-> 0], [f |-> "codec_type=audio", v |-> 0],
    [f |-> "width", v |-> 1], [f |-> "width", v |-> 2],
    [f |-> "height", v |-> 1], [f |-> "height", v |-> 2],
    [f |-> "error", v |-> 0], [f |-> "Error", v |-> 0],
    [f |-> "buffer", v |-> 0] }

Reports == UNION { [1..n -> OutTokens] : n \in 0..MaxOutLen }

\* "x" in text, case-sensitive
Contains(out, word) == \E k \in DOMAIN out : out[k].f = word

\* re.search(r'width=(\d+)', out): the first match, 0 when there is none
Search(out, field) ==
  LET S == {k \in DOMAIN out : out[k].f = field}
  IN IF S = {} THEN 0 ELSE out[Min(S)].v

\* The ways subprocess.run(ffprobe_cmd, timeout=15) ends.
ProbeTimes == {1004, 2000}     \* time.time() - start_time, in 1/1000 s
Behaviours ==
  [kind : {"launch_fail", "inner_timeout"}, rc : {0}, out : {<<>>}, time : {1004}]
  \cup [kind : {"exit"}, rc : {0, 1}, out : Reports, time : ProbeTimes]

Outcome(st, notes, res, t) ==
  [status |-> st, notes |-> notes, resolution |-> res, duration |-> t]

CheckReport(b) ==
  LET out == b.out
      w == Search(out, "width")
      h == Search(out, "height")
      nv == IF Contains(out, "codec_type=video") THEN <<"[video detected]">> ELSE <<>>
      na == IF Contains(out, "codec_type=audio") THEN <<"[audio detected]">> ELSE <<>>
      resolution == IF w # 0 /\ h # 0 THEN ResStr(w, h) ELSE ""
      nr == IF w # 0 /\ h # 0 THEN <<"[video detected " \o resolution \o "]">> ELSE <<>>
      buffering == Contains(out, "error") \/ Contains(out, "buffer")
      nb == IF buffering THEN <<"[ffprobe buffering]">> ELSE <<>>
  IN Outcome(IF buffering THEN "buffering" ELSE "pass",
             nv \o na \o nr \o nb, resolution, b.time)

\* _check(): lines 79-118
Check(b) ==
  CASE b.kind = "launch_fail" -> Outcome("error", <<"[Errno 2] No such file">>, NoneStr, NoTime)
    [] b.kind = "inner_timeout" -> Outcome("error", <<"timed out after 15 seconds">>, NoneStr, NoTime)
    [] b.kind = "exit" /\ b.rc # 0 -> Outcome("buffering", <<"ffprobe error:">>, "", b.time)
    [] OTHER -> CheckReport(b)

TimeoutOutcome == Outcome("error", <<"timeout">>, NoneStr, NoTime)


\* check_ts(url, per_check_timeout) when nobody cancels the caller: _check()
\* never suspends, so once started it runs to its end and the timer of
\* wait_for cannot fire first; wait_for(timeout <= 0) cancels it unstarted.
CheckTs(b, per_check_timeout) ==
  IF per_check_timeout <= 0 THEN TimeoutOutcome ELSE Check(b)

(***************************************************************************)
(* The sequential session: run_checks_async of run_local_test.py.          *)
(***************************************************************************)
VARIABLES
  channels,            \* the (id, name, url) triples given to the session
  continuous_mode,
  duration_seconds,
  current_iteration,
  channels_json,       \* the channel records
  first_written,       \* the records as the iteration's first snapshot holds them
  disconnects_heap,    \* the list objects the records' 'disconnects' refer to
  events_heap,         \* the list objects the records' 'buffering_events' refer to
  task,                \* probe_channel(idx): its position and its locals
  now,                 \* time.time(), in seconds
  lock,                \* the asyncio.Lock of the session
  file,                \* results.json as another thread sees it
  http_server,         \* whether the HTTP server thread is running
  observed,            \* what the HTTP server thread last read
  results,             \* the list run_checks_async returns
  session,             \* "running", "returned" or "raised"
  lines_left,          \* output lines the ffprobe processes may still print
  faulty               \* the channels whose stream or probe may misbehave

seqVars == <<channels, continuous_mode, duration_seconds, current_iteration,
             channels_json, first_written, disconnects_heap, events_heap, task,
             now, lock, file, http_server, observed, results, session,
             lines_left, faulty>>

Idx == 1..NumChannels

\* the inspection calls and the output lines a session draws from
SessionBehaviours ==
  { [kind |-> "exit", rc |-> 0, time |-> 1004,
     out |-> <<[f |-> "width", v |-> 1], [f |-> "height", v |-> 1]>>],
    [kind |-> "exit", rc |-> 0, out |-> <<>>, time |-> 1004],
    [kind |-> "exit", rc |-> 1, out |-> <<>>, time |-> 1004],
    [kind |-> "inner_timeout", rc |-> 0, out |-> <<>>, time |-> 1004] }

\* a stream in order: ffprobe reports one video stream and no trouble
HealthyBehaviour ==
  [kind |-> "exit", rc |-> 0, time |-> 1004,
   out |-> <<[f |-> "width", v |-> 1], [f |-> "height", v |-> 1]>>]

\* the inspection calls of the initial probe of the continuous path
ContBehaviours ==
  { HealthyBehaviour,
    [kind |-> "inner_timeout", rc |-> 0, out |-> <<>>, time |-> 1004] }

StderrLines ==
  { [text |-> "Connection Failed", words |-> <<"Connection", "Failed">>],
    [text |-> "Error in buffer", words |-> <<"Error", "in", "buffer">>],
    [text |-> "Stream #0", words |-> <<"Stream", "#0">>] }
StdoutLines == { [f |-> "width", v |-> 2], [f |-> "height", v |-> 1] }

\* str.lower() of the words used
Lower(word) ==
  CASE word = "Error" -> "error"
    [] word = "Failed" -> "failed"
    [] word = "Buffer" -> "buffer"
    [] OTHER -> word
\* word in text.lower()
LowerHas(line, word) == \E k \in DOMAIN line.words : Lower(line.words[k]) = word

NewRecord(c, ref) ==
  [name |-> c.name, status |-> "pending", details |-> <<>>, url |-> c.url,
   resolution |-> "", tested_seconds |-> 0,
   issues |-> [buffering |-> 0, errors |-> 0],
   disconnects_count |-> 0, disconnects |-> ref,
   buffering_total_seconds |-> 0, buffering_events |-> ref]

NewTask ==
  [pc |-> "idle", start |-> 0, buffer_count |-> 0, error_count |-> 0,
   last_notes |-> <<>>, last_resolution |-> "",
   proc |-> "none", reader_out |-> "none", reader_err |-> "none",
   progress |-> "none", wake |-> 0, deadline |-> 0,
   last_width |-> 0, last_height |-> 0]

\* json.dump of the records: the lists are written by value
Resolve(rec) ==
  [rec EXCEPT !.disconnects = disconnects_heap[@],
              !.buffering_events = events_heap[@]]
Snapshot == [i \in Idx |-> Resolve(channels_json[i])]

Unlocked == [held |-> FALSE, by |-> "", idx |-> 0]
\* async with lock: the lock is taken by the task who of channel i
NotHeld(who, i) == Unlocked
Holder(who, i) == [held |-> TRUE, by |-> who, idx |-> i]

\* open(RESULTS_PATH, 'w') has truncated the file; json.dump has not reached it
Truncated == [stage |-> "truncated", channels |-> <<>>, iteration |-> current_iteration]
Complete(snap, it) == [stage |-> "complete", channels |-> snap, iteration |-> it]

\* with open(RESULTS_PATH, 'w') as f: json.dump(...).  The write blocks the
\* event loop thread, so its steps are seen only by another thread: without
\* one it is a single step.
WriteSnapshot(who, i) ==
  IF http_server
    THEN /\ file' = Truncated
         /\ lock' = Holder(who, i)
    ELSE /\ file' = Complete([j \in Idx |->
                      [channels_json'[j] EXCEPT
                         !.disconnects = disconnects_heap'[@],
                         !.buffering_events = events_heap'[@]]], current_iteration)
         /\ lock' = Unlocked

\* The event loop thread is inside a snapshot write: no coroutine runs.
Writing == file.stage \in {"truncated", "partial"}

DurationsOf(cont) ==
  IF cont THEN {ProgressEvery + 1} ELSE 0..MaxDuration

\* the state run_checks_async starts in, for the channels given
SessionStart(server, modes) ==
  /\ continuous_mode \in modes
  /\ duration_seconds \in DurationsOf(continuous_mode)
  /\ current_iteration = 1
  /\ channels_json = [i \in Idx |-> NewRecord(channels[i], i)]
  /\ first_written = [i \in Idx |-> [NewRecord(channels[i], i) EXCEPT
                        !.disconnects = <<>>, !.buffering_events = <<>>]]
  /\ disconnects_heap = [i \in Idx |-> <<>>]
  /\ events_heap = [i \in Idx |-> <<>>]
  /\ task = [i \in Idx |-> NewTask]
  /\ now = 0
  /\ lock = Unlocked
  /\ file = Complete([i \in Idx |-> [NewRecord(channels[i], i) EXCEPT
                        !.disconnects = <<>>, !.buffering_events = <<>>]], 1)
  /\ http_server = server
  /\ observed = "none"
  /\ results = <<>>
  /\ session = "running"
  /\ lines_left = MaxLines
  /\ faulty \in {S \in SUBSET Idx : Cardinality(S) <= MaxFaulty}

SessionInit(server, modes) ==
  /\ channels = [i \in Idx |-> [id |-> i, name |-> i, url |-> i]]
  /\ SessionStart(server, modes)

SeqInit == SessionInit(FALSE, BOOLEAN)

(***************************************************************************)
(* A snapshot write, lines 55-56 and its copies: the lock is held and the  *)
(* event loop thread is blocked until the file is closed.                  *)
(***************************************************************************)
\* the bytes reach the file in one flush or, for a long list, in several
FilePartial ==
  /\ file.stage = "truncated"
  /\ \E k \in 1..(NumChannels - 1) :
       file' = [file EXCEPT !.stage = "partial", !.channels = SubSeq(Snapshot, 1, k)]
  /\ UNCHANGED <<faulty, http_server, channels, first_written, continuous_mode, duration_seconds, current_iteration,
                 channels_json, disconnects_heap, events_heap, task, now, lock,
                 observed, results, session, lines_left>>

FileClose ==
  /\ Writing
  /\ file' = Complete(Snapshot, current_iteration)
  /\ lock' = Unlocked
  /\ UNCHANGED <<faulty, http_server, channels, first_written, continuous_mode, duration_seconds, current_iteration,
                 channels_json, disconnects_heap, events_heap, task, now,
                 observed, results, session, lines_left>>

\* the for loop of lines 226-228 awaits each probe_channel before the next
GateOpen(i) == TRUE
Gate(i) == \A j \in 1..(i - 1) : task[j].pc = "returned"

\* lines 53-54
MarkedRecordUnchanged(rec) == rec
MarkedRecord(rec) == [rec EXCEPT !.status = "testing"]

\* lines 45-56: mark running
Mark(i) ==
  /\ session = "running" /\ ~Writing
  /\ task[i].pc = "idle"
  /\ Gate(i)
  /\ task' = [task EXCEPT ![i].pc = "testing", ![i].start = now]
  /\ channels_json' = [channels_json EXCEPT ![i] = MarkedRecord(@)]
  /\ UNCHANGED <<faulty, http_server, channels, first_written, continuous_mode, duration_seconds, current_iteration,
                 disconnects_heap, events_heap, now, observed, results, session, lines_left>>
  /\ WriteSnapshot("main", i)


\* round(x, 2) of a time held in 1/1000 s
Round2(x) == ((x + 5) \div 10) * 10

\* lines 164 and 212
FinalStatusBufferOnly(buffer_count, error_count) ==
  IF buffer_count = 0 THEN "pass" ELSE "issue"
FinalStatus(buffer_count, error_count) ==
  IF buffer_count = 0 /\ error_count = 0 THEN "pass" ELSE "issue"

Elapsed(i) == now - task[i].start

BehavioursOf(i) ==
  IF i \notin faulty THEN {HealthyBehaviour}
  ELSE IF continuous_mode THEN ContBehaviours ELSE SessionBehaviours

\* lines 177-209: one probe of the periodic loop and the update it makes.
\* check_ts blocks the loop for d seconds.
Probe(i) ==
  /\ session = "running" /\ ~Writing
  /\ ~continuous_mode
  /\ task[i].pc = "testing"
  /\ Elapsed(i) < duration_seconds
  /\ \E b \in BehavioursOf(i), d \in {0, 1} :
       LET remaining == MaxOf(1, duration_seconds - Elapsed(i))
           o == CheckTs(b, MinOf(ShortProbeCap, remaining))
           t == task[i]
           rec == channels_json[i]
           last_resolution == IF o.resolution \notin {"", NoneStr}
                                THEN o.resolution ELSE t.last_resolution
           buffer_count == t.buffer_count + (IF o.status = "buffering" THEN 1 ELSE 0)
           error_count == t.error_count + (IF o.status = "error" THEN 1 ELSE 0)
           buff_dur == IF o.duration \notin {NoTime, 0} THEN o.duration ELSE 0
       IN /\ now' = now + d
          /\ task' = [task EXCEPT ![i].pc = "sleep",
                                  ![i].last_notes = o.notes,
                                  ![i].last_resolution = last_resolution,
                                  ![i].buffer_count = buffer_count,
                                  ![i].error_count = error_count]
          /\ events_heap' =
               IF o.status = "buffering"
                 THEN [events_heap EXCEPT ![rec.buffering_events] = Append(@, Round2(buff_dur))]
                 ELSE events_heap
          /\ disconnects_heap' =
               IF o.status = "error"
                 THEN [disconnects_heap EXCEPT ![rec.disconnects] = Append(@, now + d)]
                 ELSE disconnects_heap
          /\ channels_json' = [channels_json EXCEPT
               ![i].buffering_total_seconds =
                   IF o.status = "buffering" THEN @ + buff_dur ELSE @,
               ![i].disconnects_count = IF o.status = "error" THEN @ + 1 ELSE @,
               ![i].status = "testing",
               ![i].details = o.notes,
               ![i].resolution = last_resolution,
               ![i].tested_seconds = now + d - t.start,
               ![i].issues = [buffering |-> buffer_count, errors |-> error_count]]
  /\ UNCHANGED <<faulty, http_server, channels, first_written, continuous_mode, duration_seconds, current_iteration,
                 observed, results, session, lines_left>>
  /\ WriteSnapshot("main", i)

\* line 210: await asyncio.sleep(check_interval)
Sleep(i) ==
  /\ session = "running" /\ ~Writing
  /\ task[i].pc = "sleep"
  /\ now' = now + CheckInterval
  /\ task' = [task EXCEPT ![i].pc = "testing"]
  /\ UNCHANGED <<faulty, http_server, channels, first_written, continuous_mode, duration_seconds, current_iteration,
                 channels_json, disconnects_heap, events_heap, lock, file,
                 observed, results, session, lines_left>>

\* lines 161-173 and 211-223: the final record of the channel
FinalRecordKept(rec, t, elapsed) == rec
FinalRecord(rec, t, elapsed) ==
  [rec EXCEPT !.status = FinalStatus(t.buffer_count, t.error_count),
              !.details = t.last_notes,
              !.resolution = t.last_resolution,
              !.tested_seconds = elapsed,
              !.issues = [buffering |-> t.buffer_count, errors |-> t.error_count],
              !.buffering_total_seconds = Round2(@)]

\* lines 178-180 and 211-223
Finalize(i) ==
  /\ session = "running" /\ ~Writing
  /\ ~continuous_mode
  /\ task[i].pc = "testing"
  /\ Elapsed(i) >= duration_seconds
  /\ channels_json' = [channels_json EXCEPT ![i] = FinalRecord(@, task[i], Elapsed(i))]
  /\ task' = [task EXCEPT ![i].pc = "finalized"]
  /\ UNCHANGED <<faulty, http_server, channels, first_written, continuous_mode, duration_seconds, current_iteration,
                 disconnects_heap, events_heap, now, observed, results, session, lines_left>>
  /\ WriteSnapshot("main", i)

\* lines 174, 224 and 226-230: probe_channel returns (its locals are gone),
\* the loop appends
Return(i) ==
  /\ session = "running" /\ ~Writing
  /\ task[i].pc = "finalized"
  /\ task' = [task EXCEPT ![i] = [NewTask EXCEPT !.pc = "returned"]]
  /\ results' = Append(results, [id |-> channels[i].id, name |-> channels[i].name,
                                 url |-> channels[i].url,
                                 result |-> channels_json[i].status])
  /\ session' = IF \A j \in Idx \ {i} : task[j].pc = "returned"
                  THEN "returned" ELSE session
  /\ UNCHANGED <<faulty, http_server, channels, first_written, continuous_mode, duration_seconds, current_iteration,
                 channels_json, disconnects_heap, events_heap, now, lock, file,
                 observed, lines_left>>


(***************************************************************************)
(* The continuous path, lines 58-174.  Besides probe_channel itself there  *)
(* are the two reader tasks, the progress task and the ffprobe process.    *)
(***************************************************************************)
\* lines 58-67: the initial short probe
InitialProbe(i) ==
  /\ session = "running" /\ ~Writing
  /\ continuous_mode
  /\ task[i].pc = "testing"
  /\ \E b \in BehavioursOf(i) :
       LET o == CheckTs(b, MinOf(ShortProbeCap, duration_seconds))
       IN /\ task' = [task EXCEPT
               ![i].pc = "launch",
               ![i].last_notes = o.notes,
               ![i].last_resolution =
                  IF o.resolution \notin {"", NoneStr} THEN o.resolution ELSE @]
  /\ UNCHANGED <<faulty, http_server, channels, first_written, continuous_mode, duration_seconds, current_iteration,
                 channels_json, disconnects_heap, events_heap, now, lock, file,
                 observed, results, session, lines_left>>

\* lines 69-72, 111-112, 131-134: the process starts; the readers and the
\* progress task are created; probe_channel waits for the process
LaunchOk(i) ==
  /\ session = "running" /\ ~Writing
  /\ task[i].pc = "launch"
  /\ task' = [task EXCEPT ![i].pc = "waiting", ![i].proc = "running",
                          ![i].reader_out = "running", ![i].reader_err = "running",
                          ![i].progress = "sleeping",
                          ![i].wake = now + ProgressEvery,
                          ![i].deadline = now + duration_seconds]
  /\ UNCHANGED <<faulty, http_server, channels, first_written, continuous_mode, duration_seconds, current_iteration,
                 channels_json, disconnects_heap, events_heap, now, lock, file,
                 observed, results, session, lines_left>>

\* lines 69-72: create_subprocess_exec raises (no ffprobe, no file descriptor
\* left): nothing catches it in probe_channel or in the loop of lines 226-228
LaunchFails(i) ==
  /\ session = "running" /\ ~Writing
  /\ task[i].pc = "launch"
  /\ i \in faulty
  /\ task' = [task EXCEPT ![i].pc = "raised"]
  /\ session' = "raised"
  /\ UNCHANGED <<faulty, http_server, channels, first_written, continuous_mode, duration_seconds, current_iteration,
                 channels_json, disconnects_heap, events_heap, now, lock, file,
                 observed, results, lines_left>>

ReaderLive(i) == task[i].pc \in {"waiting", "stopping", "grace_out", "grace_err"}

\* lines 97-109: read_stderr takes one line
ReadStderr(i) ==
  /\ session = "running" /\ ~Writing
  /\ i \in faulty
  /\ ReaderLive(i) /\ task[i].reader_err = "running" /\ lines_left > 0
  /\ lines_left' = lines_left - 1
  /\ \E line \in StderrLines :
       LET isErr == LowerHas(line, "error") \/ LowerHas(line, "failed")
           isBuf == LowerHas(line, "buffer")
           n1 == IF isErr THEN Append(task[i].last_notes, line.text)
                          ELSE task[i].last_notes
           n2 == IF isBuf THEN Append(n1, line.text) ELSE n1
       IN task' = [task EXCEPT
            ![i].error_count = IF isErr THEN @ + 1 ELSE @,
            ![i].buffer_count = IF isBuf THEN @ + 1 ELSE @,
            ![i].last_notes = n2]
  /\ UNCHANGED <<faulty, http_server, channels, first_written, continuous_mode, duration_seconds, current_iteration,
                 channels_json, disconnects_heap, events_heap, now, lock, file,
                 observed, results, session>>

\* lines 83-96: read_stdout has read the line tok; t holds last_width,
\* last_height and last_resolution
StdoutLine(t, tok) ==
  LET w == IF tok.f = "width" THEN tok.v ELSE t.last_width
      h == IF tok.f = "height" THEN tok.v ELSE t.last_height
  IN [t EXCEPT !.last_width = w,
               !.last_height = h,
               !.last_resolution = IF w # 0 /\ h # 0 THEN ResStr(w, h) ELSE @]

\* lines 75-96: read_stdout takes one line
ReadStdout(i) ==
  /\ session = "running" /\ ~Writing
  /\ i \in faulty
  /\ ReaderLive(i) /\ task[i].reader_out = "running" /\ lines_left > 0
  /\ lines_left' = lines_left - 1
  /\ \E tok \in StdoutLines :
       task' = [task EXCEPT ![i] = StdoutLine(@, tok)]
  /\ UNCHANGED <<faulty, http_server, channels, first_written, continuous_mode, duration_seconds, current_iteration,
                 channels_json, disconnects_heap, events_heap, now, lock, file,
                 observed, results, session>>

\* lines 80-82 and 100-102: readline returns b'' once the process is gone
ReaderEOF(i) ==
  /\ session = "running" /\ ~Writing
  /\ ReaderLive(i) /\ task[i].proc \in {"exited", "killed"}
  /\ \/ /\ task[i].reader_out = "running"
        /\ task' = [task EXCEPT ![i].reader_out = "done"]
     \/ /\ task[i].reader_err = "running"
        /\ task' = [task EXCEPT ![i].reader_err = "done"]
  /\ UNCHANGED <<faulty, http_server, channels, first_written, continuous_mode, duration_seconds, current_iteration,
                 channels_json, disconnects_heap, events_heap, now, lock, file,
                 observed, results, session, lines_left>>

\* ffprobe ends on its own
ProcExits(i) ==
  /\ session = "running" /\ ~Writing
  /\ task[i].proc = "running"
  /\ task' = [task EXCEPT ![i].proc = "exited"]
  /\ UNCHANGED <<faulty, http_server, channels, first_written, continuous_mode, duration_seconds, current_iteration,
                 channels_json, disconnects_heap, events_heap, now, lock, file,
                 observed, results, session, lines_left>>

\* lines 115-129: update_progress wakes from sleep(5)
Progress(i) ==
  /\ session = "running" /\ ~Writing
  /\ task[i].progress = "sleeping"
  /\ now >= task[i].wake
  /\ channels_json' = [channels_json EXCEPT
       ![i].tested_seconds = Elapsed(i),
       ![i].resolution = task[i].last_resolution,
       ![i].details = task[i].last_notes]
  /\ task' = [task EXCEPT ![i].wake = now + ProgressEvery]
  /\ UNCHANGED <<faulty, http_server, channels, first_written, continuous_mode, duration_seconds, current_iteration,
                 disconnects_heap, events_heap, now, observed, results, session, lines_left>>
  /\ WriteSnapshot("progress", i)

\* the timers of the channel being probed
Timers(i) ==
  (IF task[i].progress = "sleeping" THEN {task[i].wake} ELSE {})
  \cup (IF task[i].pc \in {"waiting", "grace_out", "grace_err"}
          THEN {task[i].deadline} ELSE {})

\* the pipes of a stream in order close with its process: its readers see
\* the end of file at once
PromptEOF(i) ==
  i \notin faulty /\ task[i].proc \in {"exited", "killed"}
  /\ (task[i].reader_out = "running" \/ task[i].reader_err = "running")

\* time passes up to the next timer of the loop
AdvanceTime ==
  /\ session = "running" /\ ~Writing
  /\ \A i \in Idx : ~PromptEOF(i)
  /\ LET T == UNION {Timers(i) : i \in Idx}
     IN /\ T # {}
        /\ \A x \in T : now < x
        /\ now' = Min(T)
  /\ UNCHANGED <<faulty, http_server, channels, first_written, continuous_mode, duration_seconds, current_iteration,
                 channels_json, disconnects_heap, events_heap, task, lock, file,
                 observed, results, session, lines_left>>

\* lines 133-145: the wait ends (exit, or TimeoutError and proc.kill());
\* progress_task.cancel() is called and the progress task is awaited
WaitEnds(i) ==
  /\ session = "running" /\ ~Writing
  /\ task[i].pc = "waiting"
  /\ task[i].proc = "exited" \/ now >= task[i].deadline
  /\ task' = [task EXCEPT
       ![i].pc = "stopping",
       ![i].proc = IF @ = "running" THEN "killed" ELSE @,
       ![i].progress = "cancelling", ![i].wake = 0,
       ![i].deadline = 0]
  /\ UNCHANGED <<faulty, http_server, channels, first_written, continuous_mode, duration_seconds, current_iteration,
                 channels_json, disconnects_heap, events_heap, now, lock, file,
                 observed, results, session, lines_left>>

\* lines 116-127: the cancelled progress task runs once more: CancelledError
\* is thrown at its sleep, or in place of the result of a sleep that was
\* over, and the loop breaks
ProgressCancelled(i) ==
  /\ session = "running" /\ ~Writing
  /\ task[i].progress = "cancelling"
  /\ task' = [task EXCEPT ![i].progress = "done"]
  /\ UNCHANGED <<faulty, http_server, channels, first_written, continuous_mode, duration_seconds, current_iteration,
                 channels_json, disconnects_heap, events_heap, now, lock, file,
                 observed, results, session, lines_left>>

\* lines 144-145: await progress_task
ProgressStoppedSkip(t) == TRUE
ProgressStopped(t) == t.progress = "done"

\* lines 144-153: the progress task has ended; the wait for reader_out begins
ProgressAwaited(i) ==
  /\ session = "running" /\ ~Writing
  /\ task[i].pc = "stopping"
  /\ ProgressStopped(task[i])
  /\ task' = [task EXCEPT ![i].pc = "grace_out", ![i].deadline = now + ReaderGrace]
  /\ UNCHANGED <<faulty, http_server, channels, first_written, continuous_mode, duration_seconds, current_iteration,
                 channels_json, disconnects_heap, events_heap, now, lock, file,
                 observed, results, session, lines_left>>

\* lines 153 and 157: wait_for cancels the reader task it times out on and
\* waits until it has ended
AbandonNot(reader) == reader
Abandon(reader) == IF reader = "running" THEN "cancelled" ELSE reader

\* lines 152-155: wait_for(reader_out, timeout=2) cancels the reader it
\* times out on
GraceOut(i) ==
  /\ session = "running" /\ ~Writing
  /\ task[i].pc = "grace_out"
  /\ task[i].reader_out = "done" \/ now >= task[i].deadline
  /\ task' = [task EXCEPT
       ![i].pc = "grace_err",
       ![i].reader_out = Abandon(@),
       ![i].deadline = now + ReaderGrace]
  /\ UNCHANGED <<faulty, http_server, channels, first_written, continuous_mode, duration_seconds, current_iteration,
                 channels_json, disconnects_heap, events_heap, now, lock, file,
                 observed, results, session, lines_left>>

\* lines 156-159
GraceErr(i) ==
  /\ session = "running" /\ ~Writing
  /\ task[i].pc = "grace_err"
  /\ task[i].reader_err = "done" \/ now >= task[i].deadline
  /\ task' = [task EXCEPT
       ![i].pc = "finalize", ![i].deadline = 0,
       ![i].reader_err = Abandon(@)]
  /\ UNCHANGED <<faulty, http_server, channels, first_written, continuous_mode, duration_seconds, current_iteration,
                 channels_json, disconnects_heap, events_heap, now, lock, file,
                 observed, results, session, lines_left>>

\* lines 161-173
ContFinalize(i) ==
  /\ session = "running" /\ ~Writing
  /\ task[i].pc = "finalize"
  /\ channels_json' = [channels_json EXCEPT ![i] = FinalRecord(@, task[i], Elapsed(i))]
  /\ task' = [task EXCEPT ![i].pc = "finalized"]
  /\ UNCHANGED <<faulty, http_server, channels, first_written, continuous_mode, duration_seconds, current_iteration,
                 disconnects_heap, events_heap, now, observed, results, session, lines_left>>
  /\ WriteSnapshot("main", i)

\* the HTTP server thread serves results.json (SimpleHTTPRequestHandler)
HttpRead ==
  /\ observed' = IF file.stage = "complete" THEN "complete"
                 ELSE IF file.stage = "truncated" THEN "empty" ELSE "partial"
  /\ UNCHANGED <<faulty, http_server, channels, first_written, continuous_mode, duration_seconds, current_iteration,
                 channels_json, disconnects_heap, events_heap, task, now, lock,
                 file, results, session, lines_left>>

FileStep == FilePartial \/ FileClose

PeriodicStep ==
  \E i \in Idx : Mark(i) \/ Probe(i) \/ Sleep(i) \/ Finalize(i) \/ Return(i)

ContinuousStep ==
  \/ AdvanceTime
  \/ \E i \in Idx :
       \/ InitialProbe(i) \/ LaunchOk(i) \/ LaunchFails(i)
       \/ ReadStderr(i) \/ ReadStdout(i) \/ ReaderEOF(i) \/ ProcExits(i)
       \/ Progress(i) \/ WaitEnds(i) \/ ProgressCancelled(i) \/ ProgressAwaited(i)
       \/ GraceOut(i) \/ GraceErr(i)
       \/ ContFinalize(i)

SeqStep == PeriodicStep \/ ContinuousStep

\* the periodic session with the HTTP server thread of lines 726-733 beside it
ServedInit == SessionInit(TRUE, {FALSE})
ServedStep == PeriodicStep \/ FilePartial \/ FileClose \/ HttpRead

Terminal == {"pass", "issue", "error"}

(***************************************************************************)
(* C1: whenever a channel record is finalized, in the continuous and in    *)
(* the periodic path, its issues are the buffering and error events        *)
(* counted in the window, and its status is 'pass' if and only if both     *)
(* counts are zero; otherwise it is 'issue'.                               *)
(***************************************************************************)
C1_PassIffNoIssues ==
  \A i \in Idx :
    LET rec == channels_json[i] IN
    /\ task[i].pc = "finalized" =>
         /\ rec.issues.buffering = task[i].buffer_count
         /\ rec.issues.errors = task[i].error_count
    /\ rec.status \in Terminal =>
         /\ rec.status = "pass" <=> (rec.issues.buffering = 0 /\ rec.issues.errors = 0)
         /\ rec.status # "pass" => rec.status = "issue"

\* one channel finalized 'pass', another 'issue' on error events alone
C1_Witness ==
  \E i, j \in Idx :
    /\ channels_json[i].status = "pass"
    /\ channels_json[j].status = "issue"
    /\ channels_json[j].issues.buffering = 0
    /\ channels_json[j].issues.errors > 0

(***************************************************************************)
(* C2: the sequential orchestrator never has two channels' probes in       *)
(* flight: at most one record is 'testing', at most one probe_channel call *)
(* is between its start and its return, and at most one ffprobe process    *)
(* of the continuous path is running.                                      *)
(***************************************************************************)
InFlight == {i \in Idx : task[i].pc \notin {"idle", "returned", "raised"}}

LegalMove(old, new) ==
  \/ new = old
  \/ old = "pending" /\ new = "testing"
  \/ old = "testing" /\ new \in Terminal

C3_StatusOrder ==
  [][current_iteration' = current_iteration =>
       \A i \in Idx : LegalMove(channels_json[i].status, channels_json'[i].status)]_seqVars

\* a record has gone through testing to a terminal value, the next is testing
C3_Witness ==
  \E i, j \in Idx :
    /\ task[i].pc = "returned"
    /\ channels_json[i].status \in Terminal
    /\ channels_json[j].status = "testing"
    /\ task[j].pc = "sleep"

(***************************************************************************)
(* C4: a reader of the snapshot file in another thread always observes a   *)
(* complete snapshot, never an empty or partly written file.               *)
(***************************************************************************)
C4_ReaderSeesComplete == observed \in {"none", "complete"}

(***************************************************************************)
(* C8: a channel whose probe fails never halts the session: when           *)
(* run_checks_async ends, every channel record holds a terminal status.    *)
(***************************************************************************)
C8_FailureDoesNotHalt ==
  session # "running" => \A i \in Idx : channels_json[i].status \in Terminal

(***************************************************************************)
(* C24: every error event of a channel -- an 'error' outcome of a periodic *)
(* probe, a diagnostic line with 'error' or 'failed' in the continuous     *)
(* path -- appends one timestamp to the record's disconnects and adds one  *)
(* to disconnects_count: once the record is final, the disconnects added   *)
(* in the iteration are as many as issues.errors.                          *)
(***************************************************************************)
C24_ErrorsAreDisconnects ==
  \A i \in Idx :
    LET rec == channels_json[i] IN
    (current_iteration = 1 /\ rec.status \in Terminal) =>
      /\ Len(disconnects_heap[rec.disconnects]) = rec.issues.errors
      /\ rec.disconnects_count = rec.issues.errors

(***************************************************************************)
(* The session as the file system sees it: every snapshot write of a       *)
(* continuous or periodic session in its steps, the lock held by the task  *)
(* that writes.                                                            *)
(***************************************************************************)
WritesInit == SessionInit(TRUE, BOOLEAN)
WritesStep == SeqStep \/ FilePartial \/ FileClose

(***************************************************************************)
(* C26: every change of a channel record and the snapshot write that       *)
(* publishes it happen under the session lock: a task that changes a       *)
(* record takes the free lock in that step, changes one record only and    *)
(* starts the write; the file is written only by the holder of the lock,   *)
(* a write begins only when the last one is complete, and a finished write *)
(* holds the records as they are, which did not change while it ran.       *)
(***************************************************************************)
C26_WritesUnderLock ==
  /\ [](Writing => lock.held)
  /\ [][channels_json' # channels_json =>
         /\ ~lock.held /\ lock'.held /\ file'.stage = "truncated"
         /\ lock'.idx \in Idx
         /\ \A j \in Idx \ {lock'.idx} : channels_json'[j] = channels_json[j]]_seqVars
  /\ [][file' # file =>
         \/ file.stage = "complete" /\ file'.stage = "truncated" /\ lock'.held
         \/ /\ Writing /\ lock.held
            /\ file'.stage # "complete" => lock' = lock
            /\ channels_json' = channels_json
            /\ file'.stage = "complete" => file'.channels = Snapshot]_seqVars

\* the progress task holds the lock in the middle of its snapshot write
C26_Witness ==
  lock.held /\ lock.by = "progress" /\ file.stage = "partial"

(***************************************************************************)
(* C27: in the continuous path the progress task is cancelled and has      *)
(* ended before the readers are waited for and the record is finalized;    *)
(* once a record is final nothing changes it, and the progress task writes *)
(* a snapshot only for a record that is 'testing'.                         *)
(***************************************************************************)
C27_ProgressStopsFirst ==
  /\ [](\A i \in Idx :
          (continuous_mode
           /\ task[i].pc \in {"grace_out", "grace_err", "finalize", "finalized"})
            => task[i].progress = "done")
  /\ [][\A i \in Idx :
          channels_json[i].status \in Terminal => channels_json'[i] = channels_json[i]]_seqVars
  /\ [][(lock'.held /\ lock'.by = "progress" /\ ~lock.held) =>
          /\ channels_json[lock'.idx].status = "testing"
          /\ task[lock'.idx].pc = "waiting"]_seqVars

\* a probe that ran to its time limit and was killed is final, after the
\* progress task has written at least once
C27_Witness ==
  \E i \in Idx :
    /\ task[i].pc = "finalized" /\ task[i].proc = "killed"
    /\ task[i].progress = "done"
    /\ channels_json[i].tested_seconds >= ProgressEvery

(***************************************************************************)
(* C28: in the continuous path the ffprobe process is not running when its *)
(* channel's record is finalized: it has exited by itself or was killed,   *)
(* and it is killed only when session_duration has passed; both reader     *)
(* tasks have finished or were cancelled after their grace period, so the  *)
(* counts the final record is built from do not change any more.           *)
(***************************************************************************)
C28_ProcessGoneAtFinalize ==
  /\ [](\A i \in Idx :
          (continuous_mode /\ task[i].pc \in {"finalize", "finalized"}) =>
            /\ task[i].proc \in {"exited", "killed"}
            /\ task[i].reader_out \in {"done", "cancelled"}
            /\ task[i].reader_err \in {"done", "cancelled"})
  /\ [][\A i \in Idx :
          /\ (task[i].proc = "running" /\ task'[i].proc = "killed") =>
               (task[i].pc = "waiting" /\ now >= task[i].deadline)
          /\ (task[i].pc \in {"finalize", "finalized"}
              /\ task'[i].pc \in {"finalize", "finalized"}) =>
               /\ task'[i].buffer_count = task[i].buffer_count
               /\ task'[i].error_count = task[i].error_count
          /\ (task[i].pc = "finalize" /\ task'[i].pc = "finalized") =>
               channels_json'[i].issues = [buffering |-> task[i].buffer_count,
                                           errors |-> task[i].error_count]]_seqVars

\* a process was killed at the time limit and the reader of its diagnostics,
\* still reading after the grace period, was abandoned
C28_Witness ==
  \E i \in Idx :
    /\ task[i].pc = "finalized" /\ task[i].proc = "killed"
    /\ task[i].reader_err = "cancelled"

(***************************************************************************)
(* The periodic session alone.  The event loop runs the one coroutine that *)
(* can run: a probe returns, a sleep ends.                                 *)
(***************************************************************************)
PeriodicInit == SessionInit(FALSE, {FALSE})
PeriodicFair == WF_seqVars(PeriodicStep)

VARIABLES
  concurrency,         \* the limit given to the sweep
  hls_defined,         \* whether the name check_hls is bound
  sem_value,           \* asyncio.Semaphore(concurrency)._value
  ctask,               \* _run_channel(c): its position and its probe result
  done_queue,          \* as_completed: the finished tasks not yet awaited
  cresults,            \* results
  creturned,           \* run_checks_concurrent has returned
  inserted             \* the insert_result calls made, in order

concVars == <<concurrency, hls_defined, sem_value, ctask, done_queue, cresults,
              creturned, inserted>>

Chan == 1..SweepChannels
ProbeResults == {"pass", "buffering", "error"}

ConcInit ==
  /\ concurrency \in 1..MaxConcurrency
  /\ hls_defined \in BOOLEAN
  /\ sem_value = concurrency
  /\ ctask = [c \in Chan |-> [pc |-> "created", r |-> ""]]
  /\ done_queue = <<>>
  /\ cresults = <<>>
  /\ creturned = FALSE
  /\ inserted = <<>>

\* Semaphore.acquire: a slot is free
SlotFreeAlways == TRUE
SlotFree == sem_value > 0

\* line 134-135: the task enters the gate and calls check_hls
Enter(c) ==
  IF hls_defined
    THEN /\ sem_value' = sem_value - 1
         /\ ctask' = [ctask EXCEPT ![c].pc = "probing"]
         /\ UNCHANGED done_queue
    ELSE \* NameError: async with releases the slot at once
         /\ ctask' = [ctask EXCEPT ![c].pc = "failed"]
         /\ done_queue' = Append(done_queue, c)
         /\ UNCHANGED sem_value

\* line 140 and 134: the task runs for the first time
CStart(c) ==
  /\ ctask[c].pc = "created"
  /\ IF SlotFree
       THEN Enter(c)
       ELSE /\ ctask' = [ctask EXCEPT ![c].pc = "waiting"]
            /\ UNCHANGED <<sem_value, done_queue>>
  /\ UNCHANGED <<concurrency, hls_defined, cresults, creturned, inserted>>

\* line 134: a waiting task gets a slot
CAdmit(c) ==
  /\ ctask[c].pc = "waiting"
  /\ SlotFree
  /\ Enter(c)
  /\ UNCHANGED <<concurrency, hls_defined, cresults, creturned, inserted>>

\* line 137: insert_result(cid, r, ...) is called
InsertCallSkipped(log, cid, r) == log
InsertCall(log, cid, r) == Append(log, [id |-> cid, result |-> r])

\* lines 135-137: the probe returns its outcome and insert_result is called
\* with it
CProbeDone(c) ==
  /\ ctask[c].pc = "probing"
  /\ \E r \in ProbeResults :
       /\ ctask' = [ctask EXCEPT ![c].pc = "persisting", ![c].r = r]
       /\ inserted' = InsertCall(inserted, c, r)
  /\ UNCHANGED <<concurrency, hls_defined, sem_value, done_queue, cresults,
                 creturned>>

\* lines 137-138: insert_result returns, the task leaves the gate and returns
CInsertDone(c) ==
  /\ ctask[c].pc = "persisting"
  /\ sem_value' = sem_value + 1
  /\ ctask' = [ctask EXCEPT ![c].pc = "done"]
  /\ done_queue' = Append(done_queue, c)
  /\ UNCHANGED <<concurrency, hls_defined, cresults, creturned, inserted>>

\* line 137: insert_result raises, the task leaves the gate with the exception
CInsertFails(c) ==
  /\ ctask[c].pc = "persisting"
  /\ sem_value' = sem_value + 1
  /\ ctask' = [ctask EXCEPT ![c].pc = "failed"]
  /\ done_queue' = Append(done_queue, c)
  /\ UNCHANGED <<concurrency, hls_defined, cresults, creturned, inserted>>

\* lines 138 and 147: the entry the sweep reports for a task (0 is None)
ResultEntry(c) ==
  IF ctask[c].pc = "done"
    THEN [id |-> c, name |-> c, url |-> c, result |-> ctask[c].r]
    ELSE [id |-> 0, name |-> 0, url |-> 0, result |-> "error"]

\* lines 141-147: the next finished task is awaited
CCollect ==
  /\ done_queue # <<>>
  /\ LET c == Head(done_queue)
     IN /\ cresults' = Append(cresults, ResultEntry(c))
        /\ ctask' = [ctask EXCEPT ![c].pc = "collected"]
  /\ done_queue' = Tail(done_queue)
  /\ UNCHANGED <<concurrency, hls_defined, sem_value, creturned, inserted>>

\* line 148
CReturn ==
  /\ ~creturned
  /\ \A c \in Chan : ctask[c].pc = "collected"
  /\ creturned' = TRUE
  /\ UNCHANGED <<concurrency, hls_defined, sem_value, ctask, done_queue, cresults,
                 inserted>>

ConcStep ==
  \/ CCollect
  \/ CReturn
  \/ \E c \in Chan :
       CStart(c) \/ CAdmit(c) \/ CProbeDone(c) \/ CInsertDone(c) \/ CInsertFails(c)

\* the loop runs every task that can run; a probe and an insert end
ConcFair ==
  /\ WF_concVars(CCollect)
  /\ WF_concVars(CReturn)
  /\ \A c \in Chan :
       /\ WF_concVars(CStart(c))
       /\ WF_concVars(CAdmit(c))
       /\ WF_concVars(CProbeDone(c))
       /\ WF_concVars(CInsertDone(c) \/ CInsertFails(c))

InGate == {c \in Chan : ctask[c].pc \in {"probing", "persisting"}}

(***************************************************************************)
(* C5: with concurrency = N, never more than N channel tasks are inside    *)
(* the gated section (probe and persistence), and every task that waits    *)
(* at the gate is eventually admitted.                                     *)
(***************************************************************************)
C5_GateBound ==
  /\ [](Cardinality(InGate) <= concurrency)
  /\ \A c \in Chan : (ctask[c].pc = "waiting") ~> (ctask[c].pc # "waiting")

\* the gate is full and a further task waits
C5_Witness ==
  /\ Cardinality(InGate) = concurrency
  /\ concurrency < SweepChannels
  /\ \E c \in Chan : ctask[c].pc = "waiting"

(***************************************************************************)
(* C18: in the bounded sweep insert_result is called exactly once for      *)
(* every probe that completed, with that probe's channel id and outcome,   *)
(* at once after the probe and before the channel's entry is in the        *)
(* result list; for a probe that did not complete it is not called.        *)
(***************************************************************************)
C18_OneInsertPerProbe ==
  \A c \in Chan :
    LET calls == {k \in DOMAIN inserted : inserted[k].id = c}
    IN /\ Cardinality(calls) = IF ctask[c].r # "" THEN 1 ELSE 0
       /\ \A k \in calls : inserted[k].result = ctask[c].r
       /\ (\E k \in DOMAIN cresults : cresults[k].id = c) => calls # {}

\* one probe has just completed, another channel's entry is in the list
C18_Witness ==
  /\ \E c \in Chan : ctask[c].pc = "persisting"
  /\ \E k \in DOMAIN cresults : cresults[k].id # 0

(***************************************************************************)
(* C9: a channel whose probe or persistence fails is reported as an        *)
(* 'error' entry carrying its own id, name and url; the list returned has  *)
(* one entry per input channel.                                            *)
(***************************************************************************)
C9_FailureKeepsIdentity ==
  creturned =>
    /\ Len(cresults) = SweepChannels
    /\ \A c \in Chan : \E k \in DOMAIN cresults :
         /\ cresults[k].id = c /\ cresults[k].name = c /\ cresults[k].url = c


(***************************************************************************)
(* One call of check_ts, lines 76-124, step by step.  asyncio.wait_for     *)
(* wraps _check() in a task and suspends the caller (Python up to 3.11),   *)
(* or awaits it in place (from 3.12); with a timeout <= 0 it cancels the   *)
(* task it made and waits for that.  _check() has no suspension: once it   *)
(* starts, subprocess.run blocks the event loop until it returns.          *)
(***************************************************************************)
VARIABLES
  inline_wait,         \* wait_for awaits the coroutine in place
  ts                   \* the call: position, inputs, outcome

tsVars == <<inline_wait, ts>>

NoOutcome == Outcome("", <<>>, NoneStr, NoTime)
Timeouts == {0, 1, 15}

TsInit ==
  /\ inline_wait \in BOOLEAN
  /\ \E b \in Behaviours, t \in Timeouts :
       ts = [pc |-> "idle", b |-> b, per_check_timeout |-> t, outcome |-> NoOutcome,
             cancel |-> FALSE]

\* line 120: the call reaches wait_for
TsCall ==
  /\ ts.pc = "idle"
  /\ IF ts.per_check_timeout <= 0
       THEN ts' = [ts EXCEPT !.pc = "cancelling"]
       ELSE IF inline_wait
              THEN ts' = [ts EXCEPT !.pc = "returned", !.outcome = Check(ts.b)]
              ELSE ts' = [ts EXCEPT !.pc = "waiting"]
  /\ UNCHANGED inline_wait

\* lines 79-118: the task of _check() runs, from its first line to its return
TsInnerRuns ==
  /\ ts.pc = "waiting"
  /\ ts' = [ts EXCEPT !.pc = "inner_done", !.outcome = Check(ts.b)]
  /\ UNCHANGED inline_wait

\* line 120: wait_for returns the finished task's result, also when the
\* caller was cancelled after the task finished
TsResume ==
  /\ ts.pc = "inner_done"
  /\ ts' = [ts EXCEPT !.pc = "returned"]
  /\ UNCHANGED inline_wait

\* lines 121-122: the task cancelled for a timeout <= 0 has ended
TsTimedOut ==
  /\ ts.pc = "cancelling"
  /\ ~ts.cancel
  /\ ts' = [ts EXCEPT !.pc = "returned", !.outcome = TimeoutOutcome]
  /\ UNCHANGED inline_wait

\* the task awaiting check_ts is cancelled by its owner
TsCancel ==
  /\ ts.pc \in {"waiting", "cancelling", "inner_done"}
  /\ ~ts.cancel
  /\ ts' = [ts EXCEPT !.cancel = TRUE]
  /\ UNCHANGED inline_wait

\* lines 119-124: CancelledError is thrown at the suspension inside wait_for;
\* it is neither asyncio.TimeoutError nor an Exception
TsRaise ==
  /\ ts.pc \in {"waiting", "cancelling"}
  /\ ts.cancel
  /\ ts' = [ts EXCEPT !.pc = "raised"]
  /\ UNCHANGED inline_wait

TsStep == TsCall \/ TsInnerRuns \/ TsResume \/ TsTimedOut \/ TsCancel \/ TsRaise

\* how long the inspection call takes, in 1/1000 s: subprocess.run gives up
\* after its own 15 s
Took(b) ==
  CASE b.kind = "launch_fail" -> 0
    [] b.kind = "inner_timeout" -> 15000
    [] OTHER -> b.time

(***************************************************************************)
(* C11: whenever the inspection call does not complete within              *)
(* per_check_timeout, check_ts returns status 'error' with notes           *)
(* 'timeout', whatever the value of per_check_timeout.                     *)
(***************************************************************************)
C11_LateIsTimeout ==
  (ts.pc = "returned" /\ Took(ts.b) > ts.per_check_timeout * 1000)
    => ts.outcome = TimeoutOutcome

(***************************************************************************)
(* C10: check_ts never propagates an exception: however the inspection     *)
(* call ends -- cancellation of the awaiting task included -- the call     *)
(* returns an outcome whose status is pass, buffering or error.            *)
(***************************************************************************)
C10_AlwaysOutcome ==
  /\ ts.pc # "raised"
  /\ ts.pc = "returned" => ts.outcome.status \in ProbeResults

(***************************************************************************)
(* C22: when the inspection call completes without timeout or exception,   *)
(* check_ts returns 'buffering' if the exit status is non-zero or the      *)
(* output contains 'error' or 'buffer' in any letter case, and 'pass'      *)
(* otherwise.                                                              *)
(***************************************************************************)
C22_AnyCaseBuffering ==
  (ts.pc = "returned" /\ ts.b.kind = "exit" /\ ts.per_check_timeout > 0) =>
    ts.outcome.status =
      IF \/ ts.b.rc # 0
         \/ \E k \in DOMAIN ts.b.out : Lower(ts.b.out[k].f) \in {"error", "buffer"}
        THEN "buffering" ELSE "pass"


(***************************************************************************)
(* The Monitor of worker.py, lines 150-192: start, stop, the loop task of  *)
(* _loop and, for each sweep, the tasks asyncio.gather makes of            *)
(* _run_one(c).  Sweeps are numbered as they begin.                        *)
(***************************************************************************)
VARIABLES
  m_running,           \* Monitor._running
  mtask,               \* Monitor._task: the loop task, its position
  sweep,               \* sweeps begun so far
  starts,              \* calls of start() so far
  mrun,                \* the task of _run_one(c) of sweep s
  mlog                 \* insert_result calls completed, per channel id

monVars == <<m_running, mtask, sweep, starts, mrun, mlog>>

Sweeps == 1..MaxSweeps
LoopDone == {"finished", "raised", "cancelled"}

MonInit ==
  /\ m_running = FALSE
  /\ mtask = [pc |-> "none", cancel |-> FALSE, id |-> 0]
  /\ sweep = 0
  /\ starts = 0
  /\ mrun = [s \in Sweeps |-> [c \in Chan |-> "none"]]
  /\ mlog = [c \in Chan |-> 0]

\* line 184: self._task and not self._task.done()
TaskAliveNever == FALSE
TaskAlive == mtask.pc # "none" /\ mtask.pc \notin LoopDone

\* lines 183-187; the loop tasks are numbered as they are created
start ==
  /\ starts < MaxStarts
  /\ starts' = starts + 1
  /\ IF TaskAlive
       THEN UNCHANGED <<m_running, mtask>>
       ELSE /\ m_running' = TRUE
            /\ mtask' = [pc |-> "created", cancel |-> FALSE, id |-> mtask.id + 1]
  /\ UNCHANGED <<sweep, mrun, mlog>>

\* Task.cancel() on a task of _run_one: CancelledError is thrown at its
\* suspension, in wait_for or in insert_result
\* a task that has not run yet never calls check_ts
Cancelled(pc) ==
  CASE pc = "new" -> "dropped"
    [] pc \in {"probing", "inserting"} -> "cancelled"
    [] OTHER -> pc

\* line 192: self._task.cancel()
CancelIgnored(t) == t
CancelRequest(t) == [t EXCEPT !.cancel = TRUE]

\* lines 189-192; cancelling a loop task that awaits gather cancels the
\* tasks gather made
stop ==
  /\ mtask.pc # "none"
  /\ m_running
  /\ m_running' = FALSE
  /\ IF mtask.pc \in LoopDone
       THEN UNCHANGED <<mtask, mrun>>
       ELSE /\ mtask' = CancelRequest(mtask)
            /\ IF mtask.pc = "gather"
                 THEN mrun' = [mrun EXCEPT ![sweep] = [c \in Chan |-> Cancelled(mrun[sweep][c])]]
                 ELSE UNCHANGED mrun
  /\ UNCHANGED <<sweep, starts, mlog>>

\* the cancelled loop task ends
MCancelled ==
  /\ mtask.cancel
  /\ mtask.pc \notin LoopDone
  /\ mtask' = [mtask EXCEPT !.pc = "cancelled", !.cancel = FALSE]
  /\ UNCHANGED <<m_running, sweep, starts, mrun, mlog>>

\* line 164: while self._running
LoopTop == IF m_running THEN "list" ELSE "finished"

\* lines 162-165: the loop task runs for the first time
MBegin ==
  /\ mtask.pc = "created" /\ ~mtask.cancel
  /\ mtask' = [mtask EXCEPT !.pc = LoopTop]
  /\ UNCHANGED <<m_running, sweep, starts, mrun, mlog>>

\* lines 165-168: list_channels returns and gather makes a task per channel
MSweep ==
  /\ mtask.pc = "list" /\ ~mtask.cancel
  /\ sweep < MaxSweeps
  /\ sweep' = sweep + 1
  /\ mrun' = [mrun EXCEPT ![sweep + 1] = [c \in Chan |-> "new"]]
  /\ mtask' = [mtask EXCEPT !.pc = "gather"]
  /\ UNCHANGED <<m_running, starts, mlog>>

\* line 159: the task calls check_ts, which suspends it unless wait_for
\* awaits in place
RStart(s, c) ==
  /\ mrun[s][c] = "new"
  /\ mrun' = [mrun EXCEPT ![s][c] = IF inline_wait THEN "inserting" ELSE "probing"]
  /\ UNCHANGED <<m_running, mtask, sweep, starts, mlog>>

\* gather makes the tasks of a sweep in one step, so each of them runs for
\* the first time before any of them is resumed
AllStarted(s) == \A c \in Chan : mrun[s][c] # "new"

\* lines 159-160: check_ts returns its outcome, insert_result is awaited
RCheck(s, c) ==
  /\ mrun[s][c] = "probing"
  /\ AllStarted(s)
  /\ mrun' = [mrun EXCEPT ![s][c] = "inserting"]
  /\ UNCHANGED <<m_running, mtask, sweep, starts, mlog>>

\* line 160: insert_result returns
RInserted(s, c) ==
  /\ mrun[s][c] = "inserting"
  /\ AllStarted(s)
  /\ mrun' = [mrun EXCEPT ![s][c] = "done"]
  /\ mlog' = [mlog EXCEPT ![c] = @ + 1]
  /\ UNCHANGED <<m_running, mtask, sweep, starts>>

\* line 160: insert_result raises
RInsertFails(s, c) ==
  /\ mrun[s][c] = "inserting"
  /\ AllStarted(s)
  /\ mrun' = [mrun EXCEPT ![s][c] = "failed"]
  /\ UNCHANGED <<m_running, mtask, sweep, starts, mlog>>

\* lines 168-169: every task of the sweep has returned
MGathered ==
  /\ mtask.pc = "gather" /\ ~mtask.cancel
  /\ \A c \in Chan : mrun[sweep][c] = "done"
  /\ mtask' = [mtask EXCEPT !.pc = "sleep"]
  /\ UNCHANGED <<m_running, sweep, starts, mrun, mlog>>

\* line 168: gather hands the first exception of a task to _loop, which has
\* no handler; the other tasks of the sweep go on
MGatherRaises ==
  /\ mtask.pc = "gather" /\ ~mtask.cancel
  /\ \E c \in Chan : mrun[sweep][c] = "failed"
  /\ mtask' = [mtask EXCEPT !.pc = "raised"]
  /\ UNCHANGED <<m_running, sweep, starts, mrun, mlog>>

\* lines 169 and 164: the interval has passed
MSlept ==
  /\ mtask.pc = "sleep" /\ ~mtask.cancel
  /\ mtask' = [mtask EXCEPT !.pc = LoopTop]
  /\ UNCHANGED <<m_running, sweep, starts, mrun, mlog>>

MonStep ==
  \/ start \/ stop \/ MCancelled \/ MBegin \/ MSweep \/ MGathered
  \/ MGatherRaises \/ MSlept
  \/ \E s \in Sweeps, c \in Chan :
       RStart(s, c) \/ RCheck(s, c) \/ RInserted(s, c) \/ RInsertFails(s, c)

\* the probes of the Monitor that have been called and have not returned
MonInFlight == {sc \in Sweeps \X Chan : mrun[sc[1]][sc[2]] = "probing"}

\* a loop task cancelled by stop() is run once more and ends
MonFair == WF_monVars(MCancelled)

LoopLive == {"created", "list", "gather", "sleep"}

(***************************************************************************)
(* C15: start() called while the monitor is running (its flag is set and   *)
(* its loop task has not ended) changes nothing: no loop task is created,  *)
(* the loop task is not replaced and _running keeps its value.             *)
(***************************************************************************)
C15_StartWhileRunning ==
  [][(starts' # starts /\ m_running /\ mtask.pc \in LoopLive)
       => (mtask' = mtask /\ m_running' = m_running)]_monVars

\* start() was called a second time on a monitor in the middle of a sweep
C15_Witness ==
  starts = 2 /\ mtask.id = 1 /\ m_running /\ mtask.pc = "gather"

(***************************************************************************)
(* C16: stop() during a sweep interrupts no probe in flight: every probe   *)
(* started before stop() runs to its end and its outcome is persisted.     *)
(***************************************************************************)
C16_StopLetsProbesFinish ==
  \A s \in Sweeps, c \in Chan : mrun[s][c] # "cancelled"

(***************************************************************************)
(* C17: once stop() has been called the loop begins no new sweep -- the    *)
(* channel list is not fetched again and no task starts a probe -- whether *)
(* stop() came during a sweep or during the sleep, and the loop task       *)
(* eventually ends.                                                        *)
(***************************************************************************)
C17_NoSweepAfterStop ==
  /\ [][~m_running =>
         /\ sweep' = sweep
         /\ mtask'.pc = "list" => mtask.pc = "list"
         /\ \A s \in Sweeps, c \in Chan :
              mrun[s][c] = "new" => mrun'[s][c] \in {"new", "dropped"}]_monVars
  /\ (mtask.cancel ~> mtask.pc \in LoopDone)

\* stop() came during a sweep, and the loop task has ended
C17_Witness ==
  /\ ~m_running /\ mtask.pc = "cancelled" /\ sweep >= 1
  /\ \E c \in Chan : mrun[sweep][c] \in {"cancelled", "dropped"}

(***************************************************************************)
(* C33: _running is true only if a loop task exists and has not finished:  *)
(* the monitor is never marked running while its loop is dead, so that a   *)
(* start request guarded by _running is never skipped while no loop is     *)
(* alive.                                                                  *)
(***************************************************************************)
C33_RunningMeansAlive == m_running => TaskAlive

(***************************************************************************)
(* C34: stop() followed by start() leaves the monitor running again, with  *)
(* _running true and a live loop task that goes on to sweep, whether or    *)
(* not the cancelled loop task has finished when start() is called.        *)
(***************************************************************************)
C34_RestartRuns ==
  [][(starts' # starts /\ ~m_running /\ mtask.pc # "none")
       => (m_running' /\ mtask'.pc \in LoopLive /\ ~mtask'.cancel)]_monVars

(***************************************************************************)
(* C6: in the Monitor's sweep the probes in flight at one time never       *)
(* exceed the configured concurrency limit, whatever the number of         *)
(* channels.                                                               *)
(***************************************************************************)
C6_SweepCapped == Cardinality(MonInFlight) <= concurrency

(***************************************************************************)
(* C7: no failure of one channel's task leaves the Monitor's loop: the     *)
(* loop task never ends with an exception, and a task that failed in a     *)
(* sweep does not keep the loop from sweeping again.                       *)
(***************************************************************************)
C7_LoopSurvives == mtask.pc # "raised"

(***************************************************************************)
(* The iterations of tests_runner, run_local_test.py lines 701-724: each   *)
(* one calls prepare_and_run (lines 232-321), which seeds the records of   *)
(* iteration k > 1 from results.json, keyed by channel name, and runs a    *)
(* periodic session.  Two channels of different url may have one name.     *)
(***************************************************************************)
NameMaps == {[i \in Idx |-> i], [i \in Idx |-> 1]}

LoopInit ==
  /\ \E nm \in NameMaps : channels = [i \in Idx |-> [id |-> i, name |-> nm[i], url |-> i]]
  /\ SessionStart(FALSE, {FALSE})

\* lines 283-289: previous_counts[ch['name']] = {...}, a later record of the
\* same name replaces an earlier one
LastNamed(name) == Max({j \in Idx : channels[j].name = name})

\* lines 293-309: the record of a channel, seeded from prev
SeededFresh(c, ref, prev) == NewRecord(c, ref)
Seeded(c, ref, prev) ==
  [NewRecord(c, ref) EXCEPT !.disconnects_count = prev.disconnects_count,
                            !.buffering_total_seconds = prev.buffering_total_seconds]

\* lines 704-713, 274-312 and 27-43: the next iteration begins
StartIteration ==
  /\ session = "returned"
  /\ current_iteration < MaxIterations
  /\ file.stage = "complete"
  /\ current_iteration' = current_iteration + 1
  /\ LET prev_data == file.channels
         used == {LastNamed(channels[i].name) : i \in Idx}
     IN /\ disconnects_heap' = [j \in Idx |->
               IF j \in used THEN prev_data[j].disconnects ELSE <<>>]
        /\ events_heap' = [j \in Idx |->
               IF j \in used THEN prev_data[j].buffering_events ELSE <<>>]
        /\ channels_json' = [i \in Idx |->
               Seeded(channels[i], LastNamed(channels[i].name),
                      prev_data[LastNamed(channels[i].name)])]
        /\ first_written' = [i \in Idx |->
               [channels_json'[i] EXCEPT
                  !.disconnects = disconnects_heap'[@],
                  !.buffering_events = events_heap'[@]]]
  /\ task' = [i \in Idx |-> NewTask]
  /\ results' = <<>>
  /\ session' = "running"
  /\ UNCHANGED <<faulty, http_server, channels, continuous_mode, duration_seconds,
                 now, observed, lines_left>>
  /\ WriteSnapshot("main", 0)

LoopStep == PeriodicStep \/ StartIteration

RECURSIVE Sum(_)
Sum(q) == IF q = <<>> THEN 0 ELSE Head(q) + Sum(Tail(q))
Abs(x) == IF x < 0 THEN 0 - x ELSE x

(***************************************************************************)
(* C12: in every reachable state every channel record has                  *)
(* disconnects_count = len(disconnects), seeded records and later          *)
(* iterations included.                                                    *)
(***************************************************************************)
C12_CountIsLength ==
  \A i \in Idx :
    channels_json[i].disconnects_count = Len(disconnects_heap[channels_json[i].disconnects])

(***************************************************************************)
(* C13: after every finalize step the record's buffering_total_seconds is  *)
(* within 0.01 s of the sum of its buffering_events (times in 1/1000 s).   *)
(***************************************************************************)
C13_TotalNearSum ==
  \A i \in Idx :
    task[i].pc = "finalized" =>
      Abs(channels_json[i].buffering_total_seconds
          - Sum(events_heap[channels_json[i].buffering_events])) <= 10

(***************************************************************************)
(* C14: the record a channel gets at the start of iteration k > 1 is the   *)
(* initial record, except that disconnects, disconnects_count,             *)
(* buffering_events and buffering_total_seconds are those of the previous  *)
(* iteration's final record of that channel name.                          *)
(***************************************************************************)
C14_CarryOver ==
  [][current_iteration' # current_iteration =>
      \A i \in Idx : \E j \in Idx :
        LET new == channels_json'[i]
            old == Resolve(channels_json[j])
        IN /\ channels[j].name = channels[i].name
           /\ new.name = channels[i].name /\ new.url = channels[i].url
           /\ new.status = "pending" /\ new.tested_seconds = 0
           /\ new.issues = [buffering |-> 0, errors |-> 0]
           /\ new.details = <<>> /\ new.resolution = ""
           /\ new.disconnects_count = old.disconnects_count
           /\ disconnects_heap'[new.disconnects] = old.disconnects
           /\ new.buffering_total_seconds = old.buffering_total_seconds
           /\ events_heap'[new.buffering_events] = old.buffering_events]_seqVars

\* iteration 2 starts with a record that carries two disconnects
C14_Witness ==
  /\ current_iteration = 2
  /\ \E i \in Idx :
       /\ channels_json[i].status = "pending"
       /\ channels_json[i].disconnects_count = 2
       /\ Len(disconnects_heap[channels_json[i].disconnects]) = 2

(***************************************************************************)
(* C30: probing one channel changes that channel's record only: while      *)
(* probe_channel runs for one channel, the record of every other channel,  *)
(* its disconnects and buffering_events included, stays as it is -- also   *)
(* in iterations after the first, and when two channels have one name.     *)
(***************************************************************************)
C30_OnlyOwnRecord ==
  [][current_iteration' = current_iteration =>
       \A j \in Idx :
         (task[j].pc \in {"idle", "returned"} /\ task'[j].pc = task[j].pc) =>
           /\ channels_json'[j] = channels_json[j]
           /\ disconnects_heap'[channels_json[j].disconnects]
                = disconnects_heap[channels_json[j].disconnects]
           /\ events_heap'[channels_json[j].buffering_events]
                = events_heap[channels_json[j].buffering_events]]_seqVars

\* record i as lines 200-209 and 213-223 have written it: after a probe of
\* the periodic path, or at its finalize
WrittenInPeriodic(i) ==
  /\ ~continuous_mode
  /\ task[i].pc \in {"sleep", "finalized"}

(***************************************************************************)
(* C31: in the periodic path, at every snapshot write after a probe and at *)
(* finalize, the record's disconnects_count is its value at the start of   *)
(* the iteration plus issues.errors, and the length of buffering_events is *)
(* its length at the start of the iteration plus issues.buffering.         *)
(***************************************************************************)
C31_CountsFollowIssues ==
  \A i \in Idx :
    WrittenInPeriodic(i) =>
      /\ channels_json[i].disconnects_count
           = first_written[i].disconnects_count + channels_json[i].issues.errors
      /\ Len(events_heap[channels_json[i].buffering_events])
           = Len(first_written[i].buffering_events) + channels_json[i].issues.buffering

(***************************************************************************)
(* Monitor.run_once, worker.py lines 171-181: one pass over the channels   *)
(* list_channels returns, one after the other.                             *)
(***************************************************************************)
VARIABLES once         \* the call of run_once: its position and its locals

onceVars == <<once>>

\* what list_channels returns to a call
OnceLists == {<<>>, <<1>>}

OnceIdle ==
  once = [pc |-> "idle", channels |-> <<>>, k |-> 0, results |-> <<>>,
          calls |-> 0, probes |-> 0, inserts |-> 0, returned |-> <<>>]

\* line 175: results = []
StaleResults(o) == o.results
FreshResults(o) == <<>>

\* lines 171-174: run_once is called and awaits list_channels
OnceCall ==
  /\ once.pc \in {"idle", "returned", "raised"}
  /\ once.calls < MaxOnceCalls
  /\ once' = [once EXCEPT !.pc = "listing", !.channels = <<>>, !.k = 0,
                          !.calls = @ + 1, !.probes = 0, !.inserts = 0]

\* line 181: return results
OnceReturn(o) ==
  [o EXCEPT !.pc = "returned",
            !.returned = Append(@, [channels |-> o.channels, results |-> o.results,
                                    probes |-> o.probes, inserts |-> o.inserts])]

\* lines 174-178: list_channels returns; the loop calls check_ts for the first
\* channel, or there is none
OnceListed ==
  /\ once.pc = "listing"
  /\ \E l \in OnceLists :
       LET o == [once EXCEPT !.channels = l, !.results = FreshResults(once)]
       IN once' = IF l = <<>> THEN OnceReturn(o)
                  ELSE [o EXCEPT !.pc = "probing", !.k = 1, !.probes = @ + 1]

\* lines 178-179: check_ts returns and insert_result is called
OnceProbed ==
  /\ once.pc = "probing"
  /\ \E r \in ProbeResults :
       once' = [once EXCEPT !.pc = "inserting", !.inserts = @ + 1,
                            !.results = Append(@, [id |-> once.channels[once.k], result |-> r])]

\* lines 179-181 and 176-178: insert_result returns; the entry stays in
\* results, the loop goes to the next channel or returns
OnceInserted ==
  /\ once.pc = "inserting"
  /\ once' = IF once.k < Len(once.channels)
               THEN [once EXCEPT !.pc = "probing", !.k = @ + 1, !.probes = @ + 1]
               ELSE OnceReturn(once)

\* line 179: insert_result raises, and so does run_once
OnceInsertFails ==
  /\ once.pc = "inserting"
  /\ once' = [once EXCEPT !.pc = "raised"]

OnceStep == OnceCall \/ OnceListed \/ OnceProbed \/ OnceInserted \/ OnceInsertFails

(***************************************************************************)
(* C19: run_once on an empty channel list returns an empty list, starts    *)
(* no probe, calls insert_result zero times and leaves _running and _task  *)
(* as they are; a second call on an empty list gives the same.             *)
(***************************************************************************)
C19_RunOnceEmpty ==
  /\ [](\A n \in DOMAIN once.returned :
          once.returned[n].channels = <<>> =>
            /\ once.returned[n].results = <<>>
            /\ once.returned[n].probes = 0
            /\ once.returned[n].inserts = 0)
  /\ [][m_running' = m_running /\ mtask' = mtask]_once

\* two calls on an empty list have returned while the monitor is running
C19_Witness ==
  /\ Len(once.returned) = 2
  /\ \A n \in DOMAIN once.returned : once.returned[n].channels = <<>>
  /\ m_running /\ mtask.pc = "list"

(***************************************************************************)
(* fetch_text, worker.py lines 6-29: up to max_attempts GET requests.      *)
(***************************************************************************)
VARIABLES fetch        \* the call of fetch_text: its position and its locals

fetchVars == <<fetch>>

max_attempts == 3
delay == 2

\* what one GET request can come to: the request raises, the body does not
\* decode, or there is a status and a text
Attempts ==
  [responds : {FALSE}, decodes : {FALSE}, status : {0}, text : {""},
     cause : {"ClientConnectorError", "TimeoutError"}]
  \cup [responds : {TRUE}, decodes : {FALSE}, status : {200}, text : {""},
          cause : {"decode error"}]
  \cup [responds : {TRUE}, decodes : {TRUE}, status : {200}, text : {"m3u-a", "m3u-b"},
          cause : {""}]
  \cup [responds : {TRUE}, decodes : {TRUE}, status : {404}, text : {"not found"},
          cause : {"HTTP 404"}]

FetchInit ==
  fetch = [pc |-> "attempt", attempt |-> 0, tried |-> <<>>, last_exc |-> "",
           result |-> "", error |-> "", slept |-> <<>>]

\* lines 13-25: the attempt returns the text
Returns(a) == a.responds /\ a.decodes /\ a.status = 200

\* lines 26-27: last_exc = e
FirstCause(last_exc, e) == IF last_exc = "" THEN e ELSE last_exc
LastCause(last_exc, e) == e

\* lines 11-28: one pass of the for loop, up to the return or to the sleep
FetchAttempt ==
  /\ fetch.pc = "attempt"
  /\ fetch.attempt < max_attempts
  /\ \E a \in Attempts :
       fetch' = IF Returns(a)
                  THEN [fetch EXCEPT !.pc = "returned", !.tried = Append(@, a),
                                     !.result = a.text]
                  ELSE [fetch EXCEPT !.pc = "sleep", !.tried = Append(@, a),
                                     !.last_exc = LastCause(@, a.cause)]

\* line 28: await asyncio.sleep(delay * (attempt + 1)), after every failure
FetchSlept ==
  /\ fetch.pc = "sleep"
  /\ fetch' = [fetch EXCEPT !.pc = "attempt", !.attempt = @ + 1,
                            !.slept = Append(@, delay * (fetch.attempt + 1))]

\* line 29: the loop is over
FetchGivesUp ==
  /\ fetch.pc = "attempt"
  /\ fetch.attempt >= max_attempts
  /\ fetch' = [fetch EXCEPT !.pc = "raised", !.error = fetch.last_exc]

FetchStep == FetchAttempt \/ FetchSlept \/ FetchGivesUp

(***************************************************************************)
(* C20: fetch_text makes at most 3 attempts; it returns the text of the    *)
(* first attempt that succeeds with status 200 and makes no attempt after  *)
(* it; an attempt that raises, does not decode or has another status has   *)
(* failed; after 3 failed attempts it fails with the cause of the last.    *)
(***************************************************************************)
C20_ThreeAttempts ==
  LET n == Len(fetch.tried)
      ok(a) == a.responds /\ a.decodes /\ a.status = 200
  IN /\ n <= 3
     /\ \A k \in 1..(n - 1) : ~ok(fetch.tried[k])
     /\ fetch.pc = "returned" <=> (n > 0 /\ ok(fetch.tried[n]))
     /\ fetch.pc = "returned" => fetch.result = fetch.tried[n].text
     /\ fetch.pc = "raised" =>
          /\ n = 3 /\ ~ok(fetch.tried[3])
          /\ fetch.error = fetch.tried[3].cause

\* three attempts failed, the first and the last for different reasons
C20_Witness ==
  /\ fetch.pc = "raised"
  /\ fetch.tried[1].cause # fetch.tried[3].cause

(***************************************************************************)
(* tests_runner, run_local_test.py lines 639-724, and the start of         *)
(* prepare_and_run, lines 232-272: the playlist is parsed for the selector *)
(* window, the selection is written to channel_selection.json, and every   *)
(* iteration of the loop parses the playlist again and filters it by the   *)
(* selection.  Urls are numbered; Playlist is what parse_m3u finds, and    *)
(* url HiddenUrl is an entry only the parser of lines 654-669 finds (it    *)
(* tests lines[j].startswith('#') on the unstripped line, so an indented   *)
(* comment after #EXTINF is taken for the url).                            *)
(***************************************************************************)
VARIABLES runner       \* the thread of tests_runner: its position and its locals

runnerVars == <<runner>>

MaxRuns == 3          \* iterations of the loop of tests_runner, and loop-times values
Urls == {1, 2}
HiddenUrl == 3
NoneInt == -2         \* Python None as loop_iterations

\* lines 562-572: what the selector window returns for the loop; the entry
\* of loop-times holds any integer, and a text that is no integer gives 1
LoopSettings ==
  [loop_mode : {"single"}, loop_iterations : {NoneInt}]
  \cup [loop_mode : {"loop-times"}, loop_iterations : (-1)..MaxRuns]
  \cup [loop_mode : {"infinite"}, loop_iterations : {-1}]

RunnerInit ==
  \E local \in BOOLEAN, ls \in LoopSettings, pl \in SUBSET Urls,
     sel \in SUBSET (Urls \cup {HiddenUrl}) :
    /\ sel \subseteq pl \cup {HiddenUrl}
    /\ runner = [pc |-> "setup", local |-> local, playlist |-> pl, selected |-> sel,
                 loop_mode |-> ls.loop_mode, loop_iterations |-> ls.loop_iterations,
                 max_iterations |-> 0, current_iteration |-> 0, items |-> {},
                 empty_returns |-> 0, probes |-> 0, records |-> 0,
                 printed |-> "", passed |-> <<>>, written |-> <<>>]

RunnerIdle ==
  runner = [pc |-> "exited", local |-> TRUE, playlist |-> {}, selected |-> {},
            loop_mode |-> "single", loop_iterations |-> NoneInt,
            max_iterations |-> 0, current_iteration |-> 0, items |-> {},
            empty_returns |-> 0, probes |-> 0, records |-> 0, printed |-> "",
            passed |-> <<>>, written |-> <<>>]

\* lines 639-702: the selector window, up to the loop.  For a source that is
\* not a local file the window is not shown and loop_iterations is unbound at
\* line 702.
RunnerSetup ==
  /\ runner.pc = "setup"
  /\ runner' =
       IF ~runner.local
         THEN [runner EXCEPT !.pc = "raised", !.printed = "UnboundLocalError"]
       ELSE IF runner.selected = {}
         THEN [runner EXCEPT !.pc = "exited", !.printed = "No channels selected. Exiting."]
       ELSE [runner EXCEPT
               !.pc = "loop",
               !.max_iterations = IF runner.loop_iterations # NoneInt
                                     /\ runner.loop_iterations # 0
                                     /\ runner.loop_iterations > 0
                                    THEN runner.loop_iterations ELSE 1]

\* lines 704-714 and 232-234: the next iteration calls prepare_and_run with
\* its number
RunnerEnter ==
  /\ runner.pc = "loop"
  /\ runner.current_iteration < MaxRuns
  /\ runner' = [runner EXCEPT !.pc = "prepare", !.current_iteration = @ + 1,
                              !.passed = Append(@, runner.current_iteration + 1)]

\* lines 238-263: the playlist is parsed and filtered by the selection
RunnerParse ==
  /\ runner.pc = "prepare"
  /\ LET items == runner.playlist \cap runner.selected
     IN runner' =
          IF items = {}
            THEN [runner EXCEPT !.pc = "check", !.items = items,
                                !.empty_returns = @ + 1,
                                !.printed = "No channels found in M3U (or after selection)"]
            ELSE [runner EXCEPT !.pc = "session", !.items = items]

\* lines 265-321: the channels are imported, their records are written
\* (every snapshot of the session carries the current_iteration it was given)
\* and the session probes each of them
RunnerSession ==
  /\ runner.pc = "session"
  /\ runner' = [runner EXCEPT !.pc = "check",
                              !.written = Append(@, runner.passed[Len(runner.passed)]),
                              !.records = @ + Cardinality(runner.items),
                              !.probes = @ + Cardinality(runner.items),
                              !.printed = "Results:"]

\* lines 716-724: continue or leave the loop
RunnerContinuesInLoops(r) == r.loop_mode # "single"
RunnerContinues(r) ==
  ~(r.loop_mode = "single"
    \/ (r.loop_mode = "loop-times" /\ r.current_iteration >= r.max_iterations))

RunnerCheck ==
  /\ runner.pc = "check"
  /\ runner' = [runner EXCEPT !.pc = IF RunnerContinues(runner) THEN "loop" ELSE "exited"]

RunnerStep ==
  RunnerSetup \/ RunnerEnter \/ RunnerParse \/ RunnerSession \/ RunnerCheck

(***************************************************************************)
(* C21: a run whose channel list is empty after parsing and selection      *)
(* filtering ends at once with a 'no channels' outcome: no probe starts,   *)
(* no channel record is written, and in no loop mode is the empty list     *)
(* taken up again.                                                         *)
(***************************************************************************)
C21_EmptyRunEnds ==
  runner.empty_returns > 0 =>
    /\ runner.probes = 0 /\ runner.records = 0
    /\ runner.empty_returns = 1
    /\ runner.pc \in {"check", "exited"}

\* the thread runs to its end unless the loop keeps it
RunnerFair == WF_runnerVars(RunnerStep)

\* the number of iterations the loop settings ask for
IterationsAsked(r) ==
  IF r.loop_mode = "loop-times" /\ r.loop_iterations >= 1 THEN r.loop_iterations ELSE 1

\* the loop of lines 704-724 has been entered, and has been left
InLoop == runner.max_iterations > 0
LoopLeft == InLoop /\ runner.pc = "exited"

(***************************************************************************)
(* C35: the loop of tests_runner runs exactly one iteration in 'single'    *)
(* mode and exactly N iterations in 'loop-times' mode with N >= 1 (one     *)
(* when N is missing or not positive) and then stops; in 'infinite' mode   *)
(* it never stops on its own; the iteration numbers passed to the sessions *)
(* and written to the snapshot are consecutive integers starting at 1.     *)
(***************************************************************************)
C35_IterationsAsAsked ==
  /\ [](LoopLeft => /\ runner.loop_mode # "infinite"
                    /\ runner.current_iteration = IterationsAsked(runner))
  /\ []((InLoop /\ runner.loop_mode # "infinite") =>
          runner.current_iteration <= IterationsAsked(runner))
  /\ ((InLoop /\ runner.loop_mode # "infinite") ~> LoopLeft)
  /\ [](/\ runner.passed = [k \in 1..runner.current_iteration |-> k]
        /\ \A k \in DOMAIN runner.written : runner.written[k] = k)

\* loop-times with the largest count has run all its iterations and stopped
C35_Witness ==
  /\ LoopLeft
  /\ runner.loop_mode = "loop-times" /\ runner.loop_iterations = MaxRuns
  /\ runner.passed = [k \in 1..MaxRuns |-> k]
  /\ runner.written = runner.passed

(***************************************************************************)
(* The resolution of a stream: one inspection report, given as a whole to  *)
(* check_ts._check (worker.py lines 94-104) and line by line to            *)
(* read_stdout of the continuous path (run_local_test.py lines 75-96).     *)
(***************************************************************************)
VARIABLES res          \* the report, the probe's answer and the reader's locals

resVars == <<res>>

MaxPairs == 2         \* width=/height= pairs in a report

SizeTokens ==
  { [f |-> "width", v |-> 1], [f |-> "width", v |-> 2],
    [f |-> "height", v |-> 1], [f |-> "height", v |-> 2] }
SizeReports == UNION { [1..n -> SizeTokens] : n \in 0..(2 * MaxPairs) }

ResIdle ==
  res = [pc |-> "done", report |-> <<>>, k |-> 0, probed |-> "",
         last_width |-> 0, last_height |-> 0, last_resolution |-> ""]

ResInit ==
  \E r \in SizeReports :
    res = [pc |-> "probe", report |-> r, k |-> 0, probed |-> "",
           last_width |-> 0, last_height |-> 0, last_resolution |-> ""]

\* worker.py lines 83-116: the inspection call exits 0 with the report
ResProbe ==
  /\ res.pc = "probe"
  /\ res' = [res EXCEPT
       !.pc = "read",
       !.probed = Check([kind |-> "exit", rc |-> 0, out |-> res.report,
                         time |-> 1004]).resolution]

\* lines 79-96: read_stdout reads the next line of the report
ResReadLine ==
  /\ res.pc = "read"
  /\ res.k < Len(res.report)
  /\ res' = [StdoutLine(res, res.report[res.k + 1]) EXCEPT !.k = res.k + 1]

\* lines 80-82: the end of the output
ResEOF ==
  /\ res.pc = "read"
  /\ res.k = Len(res.report)
  /\ res' = [res EXCEPT !.pc = "done"]

ResStep == ResProbe \/ ResReadLine \/ ResEOF

\* the value of the last field of that name in the report, 0 when none
SearchLast(out, field) ==
  LET S == {k \in DOMAIN out : out[k].f = field}
  IN IF S = {} THEN 0 ELSE out[Max(S)].v

LastPair(out) ==
  IF SearchLast(out, "width") # 0 /\ SearchLast(out, "height") # 0
    THEN ResStr(SearchLast(out, "width"), SearchLast(out, "height")) ELSE ""

(***************************************************************************)
(* C23: the resolution a probe reports is that of the last width=/height=  *)
(* pair of the inspection report, both for check_ts and for the live       *)
(* resolution of the continuous probe, also when the report holds several  *)
(* pairs.                                                                  *)
(***************************************************************************)
C23_LastPairWins ==
  res.pc = "done" =>
    /\ res.probed = LastPair(res.report)
    /\ res.last_resolution = LastPair(res.report)

(***************************************************************************)
(* parse_m3u, worker.py lines 51-69, and a periodic session over the       *)
(* entries it returns.  A line of the playlist is its text cut at the      *)
(* commas (chunks) and whether it is indented; strip() removes the         *)
(* indentation.                                                            *)
(***************************************************************************)
VARIABLES parse        \* the call of parse_m3u: lines, i, items

parseVars == <<parse>>

MaxPlaylist == 4      \* lines of a playlist

PlaylistLines ==
  { [indent |-> FALSE, chunks |-> <<"">>],
    [indent |-> TRUE, chunks |-> <<"">>],
    [indent |-> FALSE, chunks |-> <<"#EXTVLCOPT:x">>],
    [indent |-> FALSE, chunks |-> <<"#EXTINF:-1", "A">>],
    [indent |-> FALSE, chunks |-> <<"#EXTINF:-1 g=x", "y", "B">>],
    [indent |-> FALSE, chunks |-> <<"#EXTINF:-1 A">>],
    [indent |-> FALSE, chunks |-> <<"http://a">>],
    [indent |-> TRUE, chunks |-> <<"http://b">>] }

Playlists == UNION { [1..n -> PlaylistLines] : n \in 0..MaxPlaylist }

\* line 53: l.strip()
Strip(l) == l.chunks
\* not lines[j]
IsEmpty(text) == text = <<"">>
\* startswith('#')
IsComment(text) ==
  text[1] \in {"#EXTVLCOPT:x", "#EXTINF:-1", "#EXTINF:-1 g=x", "#EXTINF:-1 A"}
\* startswith('#EXTINF')
IsExtinf(text) == text[1] \in {"#EXTINF:-1", "#EXTINF:-1 g=x", "#EXTINF:-1 A"}

\* line 59: line.split(',', 1)[1] if ',' in line else 'unknown'
NameOfLastChunk(text) ==
  IF Len(text) > 1 THEN <<text[Len(text)]>> ELSE <<"unknown">>
NameOf(text) ==
  IF Len(text) > 1 THEN SubSeq(text, 2, Len(text)) ELSE <<"unknown">>

ParseInit ==
  \E pl \in Playlists :
    parse = [pc |-> "parsing", text |-> pl, lines |-> [k \in DOMAIN pl |-> Strip(pl[k])],
             i |-> 1, items |-> <<>>]

ParseIdle ==
  parse = [pc |-> "returned", text |-> <<>>, lines |-> <<>>, i |-> 1, items |-> <<>>]

\* lines 56-68: one pass of the while loop
ParseLine ==
  /\ parse.pc = "parsing"
  /\ parse.i <= Len(parse.lines)
  /\ LET lines == parse.lines
         i == parse.i
         skipped == {j \in (i + 1)..Len(lines) :
                       \A k \in (i + 1)..j : IsEmpty(lines[k]) \/ IsComment(lines[k])}
         j == i + 1 + Cardinality(skipped)
     IN parse' =
          IF IsExtinf(lines[i])
            THEN [parse EXCEPT
                    !.i = j + 1,
                    !.items = IF j <= Len(lines) /\ ~IsEmpty(lines[j])
                                THEN Append(@, [name |-> NameOf(lines[i]), url |-> lines[j]])
                                ELSE @]
            ELSE [parse EXCEPT !.i = i + 1]
  /\ UNCHANGED seqVars

\* line 69: return items
ParseReturn ==
  /\ parse.pc = "parsing"
  /\ parse.i > Len(parse.lines)
  /\ parse' = [parse EXCEPT !.pc = "returned"]
  /\ UNCHANGED seqVars

\* run_local_test.py lines 265-315 and 27-43: the entries, one channel per
\* url, are given ids and records and a periodic session over them starts
ParsedSession ==
  /\ parse.pc = "returned"
  /\ session = "waiting"
  /\ Len(parse.items) = NumChannels
  /\ \A a, b \in Idx : parse.items[a].url = parse.items[b].url => a = b
  /\ parse' = [parse EXCEPT !.pc = "probing"]
  /\ channels' = [i \in Idx |->
                    [id |-> i, name |-> parse.items[i].name, url |-> parse.items[i].url]]
  /\ continuous_mode' = FALSE
  /\ duration_seconds' \in DurationsOf(FALSE)
  /\ current_iteration' = 1
  /\ channels_json' = [i \in Idx |-> NewRecord(channels'[i], i)]
  /\ first_written' = [i \in Idx |-> [NewRecord(channels'[i], i) EXCEPT
                         !.disconnects = <<>>, !.buffering_events = <<>>]]
  /\ disconnects_heap' = [i \in Idx |-> <<>>]
  /\ events_heap' = [i \in Idx |-> <<>>]
  /\ task' = [i \in Idx |-> NewTask]
  /\ results' = <<>>
  /\ session' = "running"
  /\ faulty' \in {S \in SUBSET Idx : Cardinality(S) <= MaxFaulty}
  /\ UNCHANGED <<http_server, now, observed, lines_left>>
  /\ WriteSnapshot("main", 0)

ParseStep ==
  \/ ParseLine \/ ParseReturn \/ ParsedSession
  \/ PeriodicStep /\ UNCHANGED parseVars

\* the url line of the #EXTINF line at i: the next line that is neither
\* empty nor a comment; 0 when there is none
UrlLineOf(lines, i) ==
  LET S == {j \in (i + 1)..Len(lines) : ~IsEmpty(lines[j]) /\ ~IsComment(lines[j])}
  IN IF S = {} THEN 0 ELSE Min(S)

\* each #EXTINF line has a comma and, before the next #EXTINF line, its url
WellFormed(lines) ==
  \A i \in DOMAIN lines :
    IsExtinf(lines[i]) =>
      /\ Len(lines[i]) > 1
      /\ UrlLineOf(lines, i) # 0
      /\ \A k \in (i + 1)..UrlLineOf(lines, i) : ~IsExtinf(lines[k])

RECURSIVE EntriesFrom(_, _)
EntriesFrom(lines, i) ==
  IF i > Len(lines) THEN <<>>
  ELSE IF IsExtinf(lines[i])
    THEN <<[name |-> SubSeq(lines[i], 2, Len(lines[i])),
            url |-> lines[UrlLineOf(lines, i)]]>> \o EntriesFrom(lines, i + 1)
    ELSE EntriesFrom(lines, i + 1)

(***************************************************************************)
(* C25: for a playlist in which every #EXTINF line is followed, after      *)
(* blank or comment lines, by its own url line, parse_m3u returns one      *)
(* (name, url) pair per entry, in source order, the name being the text    *)
(* after the first comma; in a session over two such entries where every   *)
(* probe of one channel passes and exactly one probe of the other reports  *)
(* buffering, the records end 'pass' and 'issue', the latter with          *)
(* issues.buffering = 1.                                                   *)
(***************************************************************************)
C25_ParseThenProbe ==
  /\ (parse.pc # "parsing" /\ WellFormed(parse.lines)) =>
       parse.items = EntriesFrom(parse.lines, 1)
  /\ parse.pc = "probing" =>
       \A i \in Idx :
         LET rec == channels_json[i] IN
         /\ rec.name = parse.items[i].name /\ rec.url = parse.items[i].url
         /\ rec.status \in Terminal =>
              /\ i \notin faulty => rec.status = "pass"
              /\ (Len(events_heap[rec.buffering_events]) = 1
                  /\ Len(disconnects_heap[rec.disconnects]) = 0) =>
                   (rec.status = "issue" /\ rec.issues.buffering = 1)

\* two entries, one of them with a comma in its name, were parsed and probed:
\* the first passed, the second buffered once
C25_Witness ==
  /\ parse.pc = "probing" /\ session = "returned"
  /\ WellFormed(parse.lines)
  /\ \E k \in DOMAIN parse.items : Len(parse.items[k].name) = 2
  /\ channels_json[1].status = "pass"
  /\ channels_json[2].status = "issue" /\ channels_json[2].issues.buffering = 1
  /\ Len(events_heap[2]) = 1

(***************************************************************************)
(* The start and stop handlers of the window, gui.py lines 168-184, over   *)
(* the Monitor objects they make (worker.py lines 150-192).  The handlers  *)
(* run in the GTK thread; _start_monitor is handed to the event loop with  *)
(* run_coroutine_threadsafe and runs when the loop gets to it.  A loop     *)
(* task is "live" while _loop runs, "cancelling" from Task.cancel() until  *)
(* it is run again, and "done" after that.                                  *)
(***************************************************************************)
VARIABLES gui

guiVars == <<gui>>

MaxMonitors == 3
MaxLoopTasks == 3

Monitors == 1..MaxMonitors
LoopTasks == 1..MaxLoopTasks
NoMonitor == 0
NoTask == 0

\* gui.py lines 15-16 and worker.py lines 151-155: no monitor, and every
\* Monitor is made with _task = None and _running = False
GuiInit ==
  gui = [monitor |-> NoMonitor,
         made |-> 0,
         pending |-> 0,
         running |-> [m \in Monitors |-> FALSE],
         task |-> [m \in Monitors |-> NoTask],
         created |-> 0,
         loop |-> [t \in LoopTasks |-> [of |-> NoMonitor, state |-> "none"]]]

GuiIdle == GuiInit

\* the loop tasks of Monitor m that have not ended
AliveTasksOf(m) ==
  {t \in LoopTasks : gui.loop[t].of = m /\ gui.loop[t].state \in {"live", "cancelling"}}

\* asyncio.create_task(m._loop()), assigned to m._task
CreateLoopTask(g, m) ==
  [g EXCEPT !.created = @ + 1,
            !.task[m] = g.created + 1,
            !.loop[g.created + 1] = [of |-> m, state |-> "live"]]

\* gui.py lines 168-174
on_start ==
  /\ gui.made < MaxMonitors
  /\ IF gui.monitor # NoMonitor /\ gui.running[gui.monitor]
       THEN UNCHANGED gui
       ELSE gui' = [gui EXCEPT !.made = @ + 1,
                               !.monitor = gui.made + 1,
                               !.pending = @ + 1]

\* gui.py lines 176-179: self.monitor is read when the coroutine runs
StartMonitor ==
  /\ gui.pending > 0
  /\ gui.created < MaxLoopTasks
  /\ gui' = CreateLoopTask([gui EXCEPT !.pending = @ - 1,
                                       !.running[gui.monitor] = TRUE],
                           gui.monitor)

\* gui.py lines 181-184 and worker.py lines 189-192
on_stop ==
  /\ gui.monitor # NoMonitor
  /\ LET m == gui.monitor
         t == gui.task[m]
     IN gui' = [gui EXCEPT
          !.running[m] = FALSE,
          !.loop = IF t # NoTask /\ gui.loop[t].state = "live"
                     THEN [@ EXCEPT ![t].state = "cancelling"] ELSE @]

\* the cancelled loop task is run again and ends with CancelledError
GuiLoopCancelled(t) ==
  /\ gui.loop[t].state = "cancelling"
  /\ gui' = [gui EXCEPT !.loop[t].state = "done"]

\* worker.py line 164: the loop finds _running false and returns
GuiLoopExits(t) ==
  /\ gui.loop[t].state = "live"
  /\ ~gui.running[gui.loop[t].of]
  /\ gui' = [gui EXCEPT !.loop[t].state = "done"]

\* worker.py lines 165-168: list_channels or a sweep raises, _loop has no
\* handler
GuiLoopRaises(t) ==
  /\ gui.loop[t].state = "live"
  /\ gui' = [gui EXCEPT !.loop[t].state = "done"]

GuiStep ==
  \/ on_start \/ StartMonitor \/ on_stop
  \/ \E t \in LoopTasks : GuiLoopCancelled(t) \/ GuiLoopExits(t) \/ GuiLoopRaises(t)

(***************************************************************************)
(* C32: at most one loop task is alive for a Monitor at any time, under    *)
(* any interleaving of the window's handlers on_start, _start_monitor and  *)
(* on_stop (which calls Monitor.stop), two start requests before the first *)
(* has taken effect included.                                              *)
(***************************************************************************)
C32_OneLoopTask ==
  \A m \in Monitors : Cardinality(AliveTasksOf(m)) <= 1

(***************************************************************************)
(* The specifications.  Each one runs one part of the program and leaves   *)
(* the other parts as they are before they start.                          *)
(***************************************************************************)
vars == <<seqVars, concVars, tsVars, monVars, onceVars, fetchVars, runnerVars, resVars, parseVars,
         guiVars>>

SeqAsleep ==
  /\ channels = [i \in Idx |-> [id |-> i, name |-> i, url |-> i]]
  /\ continuous_mode = FALSE
  /\ duration_seconds = 0
  /\ current_iteration = 1
  /\ channels_json = [i \in Idx |-> NewRecord(channels[i], i)]
  /\ first_written = [i \in Idx |-> [NewRecord(channels[i], i) EXCEPT
                        !.disconnects = <<>>, !.buffering_events = <<>>]]
  /\ disconnects_heap = [i \in Idx |-> <<>>]
  /\ events_heap = [i \in Idx |-> <<>>]
  /\ task = [i \in Idx |-> NewTask]
  /\ now = 0
  /\ lock = Unlocked
  /\ file = Complete([i \in Idx |-> [NewRecord(channels[i], i) EXCEPT
                        !.disconnects = <<>>, !.buffering_events = <<>>]], 1)
  /\ http_server = FALSE
  /\ observed = "none"
  /\ results = <<>>
  /\ lines_left = 0
  /\ faulty = {}

SeqIdle == SeqAsleep /\ session = "running"

ConcAsleep ==
  /\ hls_defined = FALSE
  /\ sem_value = 1
  /\ ctask = [c \in Chan |-> [pc |-> "created", r |-> ""]]
  /\ done_queue = <<>>
  /\ cresults = <<>>
  /\ creturned = FALSE
  /\ inserted = <<>>

ConcIdle == concurrency = 1 /\ ConcAsleep

TsAsleep ==
  ts = [pc |-> "idle", b |-> HealthyBehaviour, per_check_timeout |-> 15,
       outcome |-> NoOutcome, cancel |-> FALSE]

TsIdle == inline_wait = FALSE /\ TsAsleep

\* run_checks_async: one sequential session, continuous or periodic
Init ==
  /\ SeqInit /\ ConcIdle /\ TsIdle /\ MonInit /\ OnceIdle /\ FetchInit /\ RunnerIdle
  /\ ResIdle /\ ParseIdle /\ GuiIdle
Next ==
  SeqStep /\ UNCHANGED <<concVars, tsVars, monVars, onceVars, fetchVars, runnerVars,
                         resVars, parseVars, guiVars>>
Spec == Init /\ [][Next]_vars

\* a periodic session beside the HTTP server thread
InitServed ==
  /\ ServedInit /\ ConcIdle /\ TsIdle /\ MonInit /\ OnceIdle /\ FetchInit /\ RunnerIdle
  /\ ResIdle /\ ParseIdle /\ GuiIdle
NextServed ==
  ServedStep /\ UNCHANGED <<concVars, tsVars, monVars, onceVars, fetchVars, runnerVars,
                            resVars, parseVars, guiVars>>
SpecServed == InitServed /\ [][NextServed]_vars

\* the periodic session, run by a loop that runs what can run
InitPeriodic ==
  /\ PeriodicInit /\ ConcIdle /\ TsIdle /\ MonInit /\ OnceIdle /\ FetchInit /\ RunnerIdle
  /\ ResIdle /\ ParseIdle /\ GuiIdle
NextPeriodic ==
  PeriodicStep /\ UNCHANGED <<concVars, tsVars, monVars, onceVars, fetchVars, runnerVars,
                              resVars, parseVars, guiVars>>
SpecPeriodic == InitPeriodic /\ [][NextPeriodic]_vars /\ PeriodicFair

\* a session, continuous or periodic, with its snapshot writes in steps
InitWrites ==
  /\ WritesInit /\ ConcIdle /\ TsIdle /\ MonInit /\ OnceIdle /\ FetchInit /\ RunnerIdle
  /\ ResIdle /\ ParseIdle /\ GuiIdle
NextWrites ==
  WritesStep /\ UNCHANGED <<concVars, tsVars, monVars, onceVars, fetchVars, runnerVars,
                            resVars, parseVars, guiVars>>
SpecWrites == InitWrites /\ [][NextWrites]_vars

\* the iterations of tests_runner, each a periodic session
InitLoop ==
  /\ LoopInit /\ ConcIdle /\ TsIdle /\ MonInit /\ OnceIdle /\ FetchInit /\ RunnerIdle
  /\ ResIdle /\ ParseIdle /\ GuiIdle
NextLoop ==
  LoopStep /\ UNCHANGED <<concVars, tsVars, monVars, onceVars, fetchVars, runnerVars,
                          resVars, parseVars, guiVars>>
SpecLoop == InitLoop /\ [][NextLoop]_vars

\* run_checks_concurrent, with a loop that runs every task that can run
InitConc ==
  /\ SeqIdle /\ ConcInit /\ TsIdle /\ MonInit /\ OnceIdle /\ FetchInit /\ RunnerIdle
  /\ ResIdle /\ ParseIdle /\ GuiIdle
NextConc ==
  ConcStep /\ UNCHANGED <<seqVars, tsVars, monVars, onceVars, fetchVars, runnerVars,
                          resVars, parseVars, guiVars>>
SpecConc == InitConc /\ [][NextConc]_vars /\ ConcFair

\* one call of check_ts
InitTs ==
  /\ SeqIdle /\ ConcIdle /\ TsInit /\ MonInit /\ OnceIdle /\ FetchInit /\ RunnerIdle
  /\ ResIdle /\ ParseIdle /\ GuiIdle
NextTs ==
  TsStep /\ UNCHANGED <<seqVars, concVars, monVars, onceVars, fetchVars, runnerVars,
                        resVars, parseVars, guiVars>>
SpecTs == InitTs /\ [][NextTs]_vars

\* the Monitor; concurrency is the limit its deployment configures
InitMon ==
  /\ SeqIdle /\ MonInit /\ OnceIdle /\ FetchInit /\ RunnerIdle /\ ResIdle /\ ParseIdle
  /\ GuiIdle
  /\ concurrency \in 1..MaxConcurrency /\ ConcAsleep
  /\ inline_wait \in BOOLEAN /\ TsAsleep
NextMon ==
  MonStep /\ UNCHANGED <<seqVars, concVars, tsVars, onceVars, fetchVars, runnerVars,
                         resVars, parseVars, guiVars>>
SpecMon == InitMon /\ [][NextMon]_vars /\ MonFair

\* run_once beside a Monitor that is started and stopped and whose loop
\* awaits list_channels
InitOnce ==
  /\ SeqIdle /\ ConcIdle /\ TsIdle /\ MonInit /\ OnceIdle /\ FetchInit /\ RunnerIdle
  /\ ResIdle /\ ParseIdle /\ GuiIdle
NextOnce ==
  \/ OnceStep /\ UNCHANGED <<seqVars, concVars, tsVars, monVars, fetchVars, runnerVars,
                             resVars, parseVars, guiVars>>
  \/ (start \/ stop \/ MBegin \/ MCancelled)
       /\ UNCHANGED <<seqVars, concVars, tsVars, onceVars, fetchVars, runnerVars,
                      resVars, parseVars, guiVars>>
SpecOnce == InitOnce /\ [][NextOnce]_vars

\* one call of fetch_text
InitFetch ==
  /\ SeqIdle /\ ConcIdle /\ TsIdle /\ MonInit /\ OnceIdle /\ FetchInit /\ RunnerIdle
  /\ ResIdle /\ ParseIdle /\ GuiIdle
NextFetch ==
  FetchStep /\ UNCHANGED <<seqVars, concVars, tsVars, monVars, onceVars, runnerVars,
                           resVars, parseVars, guiVars>>
SpecFetch == InitFetch /\ [][NextFetch]_vars

\* the thread of tests_runner
InitRunner ==
  /\ SeqIdle /\ ConcIdle /\ TsIdle /\ MonInit /\ OnceIdle /\ FetchInit /\ RunnerInit
  /\ ResIdle /\ ParseIdle /\ GuiIdle
NextRunner ==
  RunnerStep /\ UNCHANGED <<seqVars, concVars, tsVars, monVars, onceVars, fetchVars,
                            resVars, parseVars, guiVars>>
SpecRunner == InitRunner /\ [][NextRunner]_vars
SpecRunnerFair == InitRunner /\ [][NextRunner]_vars /\ RunnerFair

\* one inspection report, probed and read
InitRes ==
  /\ SeqIdle /\ ConcIdle /\ TsIdle /\ MonInit /\ OnceIdle /\ FetchInit /\ RunnerIdle
  /\ ResInit /\ ParseIdle /\ GuiIdle
NextRes ==
  ResStep /\ UNCHANGED <<seqVars, concVars, tsVars, monVars, onceVars, fetchVars,
                         runnerVars, parseVars, guiVars>>
SpecRes == InitRes /\ [][NextRes]_vars

\* parse_m3u and the session over what it returns
InitParse ==
  /\ SeqAsleep /\ session = "waiting" /\ ParseInit
  /\ ConcIdle /\ TsIdle /\ MonInit /\ OnceIdle /\ FetchInit /\ RunnerIdle /\ ResIdle
  /\ GuiIdle
NextParse ==
  ParseStep /\ UNCHANGED <<concVars, tsVars, monVars, onceVars, fetchVars, runnerVars,
                           resVars, guiVars>>
SpecParse == InitParse /\ [][NextParse]_vars

\* the window's start and stop handlers and the loop tasks they make
InitGui ==
  /\ SeqIdle /\ ConcIdle /\ TsIdle /\ MonInit /\ OnceIdle /\ FetchInit /\ RunnerIdle
  /\ ResIdle /\ ParseIdle /\ GuiInit
NextGui ==
  GuiStep /\ UNCHANGED <<seqVars, concVars, tsVars, monVars, onceVars, fetchVars,
                         runnerVars, resVars, parseVars>>
SpecGui == InitGui /\ [][NextGui]_vars

====
